---- MODULE Spec2Model ----
(***************************************************************************)
(* OpsTwin policy core: Approval Workflow, Decision Maker and Permission   *)
(* Authority (src/src/opstwin/policy).  Each component is an object with   *)
(* its own tables; each of its methods is one action.  The approval        *)
(* workflow is modelled twice: with atomic handlers (one caller) and step  *)
(* by step, one action per statement, for callers running in parallel.     *)
(***************************************************************************)
EXTENDS Integers, Sequences, FiniteSets, TLC

VARIABLES
    proposals,        \* ApprovalWorkflow._proposals: insertion-ordered dict, id = position
    on_approved_cbs,  \* ApprovalWorkflow._on_approved
    on_rejected_cbs,  \* ApprovalWorkflow._on_rejected
    now,              \* the wall clock read by datetime.utcnow(), in ticks
    wf_last,          \* the last workflow call of the single caller and what it returned
    pc,               \* per thread: the statement it is about to execute
    loc,              \* per thread: the locals of the call in progress
    ret,              \* per thread: the call that returned last and its result
    safety_constraints, \* DecisionMaker._safety_constraints
    decision_log,       \* DecisionMaker._decision_log
    dm_last,            \* the Decision the last decide call returned
    roles,              \* PermissionChecker._roles
    user_roles,         \* PermissionChecker._user_roles
    audit_log,          \* PermissionChecker._audit_log
    pm_last,            \* the last Permission Authority call and what it returned
    history,            \* ConfidenceScorer._history
    cs_last,            \* the ConfidenceResult the last calculate call returned
    cursors,            \* CursorManager._cursors
    event_log,          \* CursorManager._event_log
    current_offset,     \* CursorManager._current_offset
    ds_last,            \* the last diff-stream call and what it returned
    client_cursor,      \* a consumer of the stream: the cursor it will send next
    client_seen         \* the consumer: the events it has been returned so far

wf_vars == <<proposals, on_approved_cbs, on_rejected_cbs, now, wf_last, pc, loc, ret>>
dm_vars == <<safety_constraints, decision_log, dm_last>>
pm_vars == <<roles, user_roles, audit_log, pm_last>>
cs_vars == <<history, cs_last>>
ds_vars == <<cursors, event_log, current_offset, ds_last, client_cursor, client_seen>>

vars == <<wf_vars, dm_vars, pm_vars, cs_vars, ds_vars>>

(* What the calls of one component leave alone: the other components. *)
not_wf == <<dm_vars, pm_vars, cs_vars, ds_vars>>
not_dm == <<wf_vars, pm_vars, cs_vars, ds_vars>>
not_pm == <<wf_vars, dm_vars, cs_vars, ds_vars>>
not_cs == <<wf_vars, dm_vars, pm_vars, ds_vars>>
not_ds == <<wf_vars, dm_vars, pm_vars, cs_vars>>

----------------------------------------------------------------------------
(* Bounds of the model *)

MaxProposals == 1     \* create_proposal calls explored
MaxTime == 3          \* last clock tick explored
TicksPerSec == 2      \* clock readings per second (the code's clock has 1,000,000)
SecsPerHour == 1      \* seconds in timedelta(hours=1), scaled down from 3600
MaxCallbacks == 3     \* callbacks registered, both lists together

----------------------------------------------------------------------------
(* Values *)

NoneVal == "None"                       \* Python's None
PENDING == "pending"
APPROVED == "approved"
REJECTED == "rejected"
MODIFIED == "modified"
EXPIRED == "expired"
ProposalStatus == {PENDING, APPROVED, REJECTED, MODIFIED, EXPIRED}

TwinIds == {"twA", "twB"}
ProposalIds == 1..(MaxProposals + 1)    \* the ids a caller may pass; the last is never issued
CallbackKinds == {"ok", "raise"}        \* a callback that returns, one that raises Exception

(* datetime.isoformat() + "Z": "YYYY-MM-DDTHH:MM:SS" with ".ffffff" appended   *)
(* only when the microsecond is not 0.  The string is the sequence of its     *)
(* fields: the zero-padded date and time to the second (one field, ordered as *)
(* the number), then either "Z", or ".", the zero-padded fraction and "Z".    *)
CharDot == 46
CharZ == 90

IsoFormat(t) ==
    LET s == t \div TicksPerSec
        u == t % TicksPerSec
    IN  IF u = 0 THEN <<s, CharZ>> ELSE <<s, CharDot, u, CharZ>>

(* Python's str "<": lexicographic, a proper prefix is smaller. *)
RECURSIVE StrLessFrom(_, _, _)
StrLessFrom(a, b, i) ==
    IF i > Len(a) THEN i <= Len(b)
    ELSE IF i > Len(b) THEN FALSE
    ELSE IF a[i] # b[i] THEN a[i] < b[i]
    ELSE StrLessFrom(a, b, i + 1)

StrLess(a, b) == StrLessFrom(a, b, 1)

(* timedelta(hours=h) in ticks *)
HoursDelta(h) == h * SecsPerHour * TicksPerSec

(* Proposal(...): the dataclass with its defaults; summary, evidence,        *)
(* recommended_action and confidence are payload no method reads or writes.  *)
Proposal(twin, created, expires) ==
    [twin_id |-> twin, status |-> PENDING, created_at |-> created,
     expires_at |-> expires, approved_by |-> NoneVal, approval_reason |-> NoneVal]

----------------------------------------------------------------------------
(* ApprovalWorkflow, atomic handlers *)

(* The callback registry: the two lists of the workflow. *)
Registry == [on_approved |-> on_approved_cbs, on_rejected |-> on_rejected_cbs]

(* Escapes without the try/except: what a callback raises leaves the loop. *)
Escapes_Uncaught(cb) == cb = "raise"

(* try: callback(proposal) / except Exception: pass -- whether what the      *)
(* callback raises leaves the try statement.                                 *)
Escapes(cb) == FALSE

(* for callback in self._on_approved (or _on_rejected): try ... : the calls  *)
(* made, in order, each with the list the callback was taken from and the    *)
(* status it sees, and whether an exception left the loop.                   *)
RECURSIVE FireCallbacks(_, _, _, _)
FireCallbacks(reg, which, i, p) ==
    IF i > Len(reg[which]) THEN [fired |-> <<>>, exc |-> FALSE]
    ELSE LET call == [list |-> which, index |-> i, cb |-> reg[which][i], seen |-> p.status]
         IN  IF Escapes(reg[which][i]) THEN [fired |-> <<call>>, exc |-> TRUE]
             ELSE LET rest == FireCallbacks(reg, which, i + 1, p)
                  IN  [fired |-> <<call>> \o rest.fired, exc |-> rest.exc]

(* Resolvable without the status test of lines 106 and 133. *)
Resolvable_AnyStatus(props, id) == id \in DOMAIN props

(* The guard of approve and reject: the id is in the table and the proposal  *)
(* is PENDING.                                                               *)
Resolvable(props, id) == id \in DOMAIN props /\ props[id].status = PENDING

(* ReasonOrDefault without the default: the reason is stored as passed. *)
ReasonOrDefault_AsPassed(reason) == reason

(* reason or "Approved" *)
ReasonOrDefault(reason) == IF reason = NoneVal \/ reason = "" THEN "Approved" ELSE reason

(* The body shared by approve and reject: the table after the call, what the *)
(* call returns (<<>> for None, <<id>> for the proposal), the callbacks it   *)
(* called and whether it raised.                                             *)
Resolve(props, reg, which, id, status, who, reason) ==
    IF ~Resolvable(props, id)
    THEN [props |-> props, ret |-> <<>>, fired |-> <<>>, exc |-> FALSE]
    ELSE LET p == [props[id] EXCEPT !.status = status, !.approved_by = who,
                                    !.approval_reason = reason]
             fc == FireCallbacks(reg, which, 1, p)
         IN  [props |-> [props EXCEPT ![id] = p],
              ret |-> IF fc.exc THEN <<>> ELSE <<id>>,
              fired |-> fc.fired, exc |-> fc.exc]

ApproveOutcome(props, reg, id, approver, reason) ==
    Resolve(props, reg, "on_approved", id, APPROVED, approver, ReasonOrDefault(reason))

RejectOutcome(props, reg, id, rejector, reason) ==
    Resolve(props, reg, "on_rejected", id, REJECTED, rejector, reason)

(* What the single caller sees of the call that has just returned: its name, *)
(* the proposal id, the resolver or subject and the reason passed, the value *)
(* returned (a sequence of proposal ids: <<>> for None and for the empty     *)
(* list), the callbacks called and whether it raised.  NoCall: no call has   *)
(* returned at the present reading of the clock.                             *)
Last(op, id, who, reason, r, fired, exc) ==
    [op |-> op, id |-> id, who |-> who, reason |-> reason,
     ret |-> r, fired |-> fired, exc |-> exc]

NoCall == Last(NoneVal, 0, NoneVal, NoneVal, <<>>, <<>>, FALSE)

(* create_proposal: the clock is read on line 80 for the expiry and again,   *)
(* d ticks later, by created_at's default factory.  uuid4 ids are fresh: the *)
(* new proposal takes the next position of the table.                        *)
create_proposal_ExpiresFromCreated(twin, timeout_hours, d) ==
    /\ LET expires == now + d + HoursDelta(timeout_hours)
           p == Proposal(twin, IsoFormat(now + d), IsoFormat(expires))
       IN  /\ proposals' = Append(proposals, p)
           /\ wf_last' = Last("create_proposal", Len(proposals) + 1, twin, NoneVal,
                              <<Len(proposals) + 1>>, <<>>, FALSE)
    /\ now' = now + d
    /\ UNCHANGED <<on_approved_cbs, on_rejected_cbs, pc, loc, ret, not_wf>>

create_proposal(twin, timeout_hours, d) ==
    /\ LET expires == now + HoursDelta(timeout_hours)
           p == Proposal(twin, IsoFormat(now + d), IsoFormat(expires))
       IN  /\ proposals' = Append(proposals, p)
           /\ wf_last' = Last("create_proposal", Len(proposals) + 1, twin, NoneVal,
                              <<Len(proposals) + 1>>, <<>>, FALSE)
    /\ now' = now + d
    /\ UNCHANGED <<on_approved_cbs, on_rejected_cbs, pc, loc, ret, not_wf>>

approve(id, approver, reason) ==
    LET o == ApproveOutcome(proposals, Registry, id, approver, reason)
    IN  /\ proposals' = o.props
        /\ wf_last' = Last("approve", id, approver, reason, o.ret, o.fired, o.exc)
        /\ UNCHANGED <<on_approved_cbs, on_rejected_cbs, now, pc, loc, ret, not_wf>>

reject(id, rejector, reason) ==
    LET o == RejectOutcome(proposals, Registry, id, rejector, reason)
    IN  /\ proposals' = o.props
        /\ wf_last' = Last("reject", id, rejector, reason, o.ret, o.fired, o.exc)
        /\ UNCHANGED <<on_approved_cbs, on_rejected_cbs, now, pc, loc, ret, not_wf>>

(* Callbacks that call back into the workflow: a callback that calls        *)
(* approve, and one that calls reject, on the proposal it is passed.         *)
ReentrantKinds == {"approve_again", "reject_again"}

(* Lines 109-111 (136-138) with only the status written when the callbacks  *)
(* run.                                                                      *)
Written_StatusOnly(p, status, who, reason) == [p EXCEPT !.status = status]

(* Lines 109-111 (136-138): the three assignments made before the loop. *)
Written(p, status, who, reason) ==
    [p EXCEPT !.status = status, !.approved_by = who, !.approval_reason = reason]

(* approve and reject with callbacks that may call approve or reject: the    *)
(* call tests the guard, writes the three fields, then calls the callbacks   *)
(* in order on the table as the callbacks before left it.  Each callback     *)
(* called is recorded with the proposal as it finds it and with what the     *)
(* call it makes returns (nested: <<>> when it makes none, <<r>> when the    *)
(* call returned r).  What a callback raises is caught (Escapes).            *)
RECURSIVE ResolveReentrant(_, _, _, _, _, _, _)
RECURSIVE FireReentrant(_, _, _, _, _)

RunCallback(props, reg, cb, id) ==
    IF cb = "approve_again"
    THEN ResolveReentrant(props, reg, "on_approved", id, APPROVED, "callback",
                          ReasonOrDefault(NoneVal))
    ELSE IF cb = "reject_again"
    THEN ResolveReentrant(props, reg, "on_rejected", id, REJECTED, "callback", "again")
    ELSE [props |-> props, ret |-> <<>>, fired |-> <<>>]

FireReentrant(props, reg, which, i, id) ==
    IF i > Len(reg[which]) THEN [props |-> props, fired |-> <<>>]
    ELSE LET cb == reg[which][i]
             run == RunCallback(props, reg, cb, id)
             call == [list |-> which, index |-> i, cb |-> cb, seen |-> props[id],
                      nested |-> IF cb \in ReentrantKinds THEN <<run.ret>> ELSE <<>>,
                      inner |-> run.fired]
             rest == FireReentrant(run.props, reg, which, i + 1, id)
         IN  [props |-> rest.props, fired |-> <<call>> \o rest.fired]

ResolveReentrant(props, reg, which, id, status, who, reason) ==
    IF ~Resolvable(props, id)
    THEN [props |-> props, ret |-> <<>>, fired |-> <<>>]
    ELSE LET written == [props EXCEPT ![id] = Written(props[id], status, who, reason)]
             fc == FireReentrant(written, reg, which, 1, id)
         IN  [props |-> fc.props, ret |-> <<id>>, fired |-> fc.fired]

approve_reentrant(id, approver, reason) ==
    LET o == ResolveReentrant(proposals, Registry, "on_approved", id, APPROVED,
                              approver, ReasonOrDefault(reason))
    IN  /\ proposals' = o.props
        /\ wf_last' = Last("approve", id, approver, reason, o.ret, o.fired, FALSE)
        /\ UNCHANGED <<on_approved_cbs, on_rejected_cbs, now, pc, loc, ret, not_wf>>

reject_reentrant(id, rejector, reason) ==
    LET o == ResolveReentrant(proposals, Registry, "on_rejected", id, REJECTED,
                              rejector, reason)
    IN  /\ proposals' = o.props
        /\ wf_last' = Last("reject", id, rejector, reason, o.ret, o.fired, FALSE)
        /\ UNCHANGED <<on_approved_cbs, on_rejected_cbs, now, pc, loc, ret, not_wf>>

get_proposal(id) ==
    /\ wf_last' = Last("get_proposal", id, NoneVal, NoneVal,
                       IF id \in DOMAIN proposals THEN <<id>> ELSE <<>>, <<>>, FALSE)
    /\ UNCHANGED <<proposals, on_approved_cbs, on_rejected_cbs, now, pc, loc, ret, not_wf>>

(* Python truthiness of an Optional[str] *)
Truthy(s) == s # NoneVal /\ s # ""

(* list_pending, lines 159-162: the proposals the loop does not skip *)
Examined(p, twin) ==
    /\ p.status = PENDING
    /\ ~(Truthy(twin) /\ p.twin_id # twin)

(* list_pending, line 165: proposal.expires_at and proposal.expires_at < now *)
(* (a timestamp is a sequence of fields; the falsy ones are None and "", <<>>) *)
PastExpiry(p, nowStr) == p.expires_at # <<>> /\ StrLess(p.expires_at, nowStr)

(* sorted(pending, key=created_at, reverse=True): a stable sort, so equal    *)
(* keys keep the order of the table.  ids come in table order; each goes     *)
(* behind every id whose key is not smaller.                                 *)
RECURSIVE InsertNewestFirst(_, _, _)
InsertNewestFirst(props, sorted, id) ==
    IF sorted = <<>> THEN <<id>>
    ELSE IF StrLess(props[Head(sorted)].created_at, props[id].created_at)
         THEN <<id>> \o sorted
         ELSE <<Head(sorted)>> \o InsertNewestFirst(props, Tail(sorted), id)

RECURSIVE SortNewestFirst(_, _, _)
SortNewestFirst(props, ids, i) ==
    IF i = 0 THEN <<>>
    ELSE InsertNewestFirst(props, SortNewestFirst(props, ids, i - 1), ids[i])

(* list_pending, lines 157-169: the ids appended to pending, in table order *)
RECURSIVE PendingIds(_, _, _, _)
PendingIds(props, twin, nowStr, i) ==
    IF i > Len(props) THEN <<>>
    ELSE (IF Examined(props[i], twin) /\ ~PastExpiry(props[i], nowStr) THEN <<i>> ELSE <<>>)
         \o PendingIds(props, twin, nowStr, i + 1)

(* list_pending: the table after the scan and the list returned *)
ListPendingOutcome(props, twin, nowStr) ==
    LET pending == PendingIds(props, twin, nowStr, 1)
    IN  [props |-> [i \in DOMAIN props |->
                        IF Examined(props[i], twin) /\ PastExpiry(props[i], nowStr)
                        THEN [props[i] EXCEPT !.status = EXPIRED]
                        ELSE props[i]],
         ret |-> SortNewestFirst(props, pending, Len(pending))]

list_pending(twin) ==
    LET o == ListPendingOutcome(proposals, twin, IsoFormat(now))
    IN  /\ proposals' = o.props
        /\ wf_last' = Last("list_pending", 0, twin, NoneVal, o.ret, <<>>, FALSE)
        /\ UNCHANGED <<on_approved_cbs, on_rejected_cbs, now, pc, loc, ret, not_wf>>

on_approved(cb) ==
    /\ Len(on_approved_cbs) + Len(on_rejected_cbs) < MaxCallbacks
    /\ on_approved_cbs' = Append(on_approved_cbs, cb)
    /\ UNCHANGED <<proposals, on_rejected_cbs, now, wf_last, pc, loc, ret, not_wf>>

on_rejected(cb) ==
    /\ Len(on_approved_cbs) + Len(on_rejected_cbs) < MaxCallbacks
    /\ on_rejected_cbs' = Append(on_rejected_cbs, cb)
    /\ UNCHANGED <<proposals, on_approved_cbs, now, wf_last, pc, loc, ret, not_wf>>

(* The wall clock advances between calls. *)
Tick ==
    /\ now < MaxTime
    /\ now' = now + 1
    /\ wf_last' = NoCall
    /\ UNCHANGED <<proposals, on_approved_cbs, on_rejected_cbs, pc, loc, ret, not_wf>>

----------------------------------------------------------------------------
(* ApprovalWorkflow step by step: threads call approve, reject and          *)
(* list_pending in parallel.  The interpreter switches threads between      *)
(* statements, so each action is one statement of a handler (several, where *)
(* they touch no shared state).  pc names the line to execute next.         *)

Threads == {"t1", "t2"}

IdleLoc == [op |-> NoneVal]
(* ret[t]: what the thread's last call returned, until it calls again *)
NoRet == [op |-> NoneVal, id |-> 0, ret |-> <<>>, exc |-> FALSE]

wf_rest == <<on_approved_cbs, on_rejected_cbs, now, wf_last, not_wf>>

Goto(t, line) == pc' = [pc EXCEPT ![t] = line]

(* return / raise: the call is over, its locals are gone *)
Return(t, r, exc) ==
    /\ ret' = [ret EXCEPT ![t] = [op |-> loc[t].op, id |-> loc[t].id, ret |-> r, exc |-> exc]]
    /\ pc' = [pc EXCEPT ![t] = "idle"]
    /\ loc' = [loc EXCEPT ![t] = IdleLoc]

(* approve(proposal_id, approver_id, reason) is called: the thread is its   *)
(* own approver.                                                            *)
call_approve(t, id, reason) ==
    /\ pc[t] = "idle"
    /\ loc' = [loc EXCEPT ![t] = [op |-> "approve", id |-> id, who |-> t,
                                  status |-> APPROVED, reason |-> ReasonOrDefault(reason)]]
    /\ Goto(t, "resolve_get")
    /\ ret' = [ret EXCEPT ![t] = NoRet]
    /\ UNCHANGED <<proposals, wf_rest>>

call_reject(t, id, reason) ==
    /\ pc[t] = "idle"
    /\ loc' = [loc EXCEPT ![t] = [op |-> "reject", id |-> id, who |-> t,
                                  status |-> REJECTED, reason |-> reason]]
    /\ Goto(t, "resolve_get")
    /\ ret' = [ret EXCEPT ![t] = NoRet]
    /\ UNCHANGED <<proposals, wf_rest>>

(* lines 102-104 (129-131): proposal = self._proposals.get(id); not found *)
resolve_get(t) ==
    /\ pc[t] = "resolve_get"
    /\ IF loc[t].id \in DOMAIN proposals
       THEN Goto(t, "resolve_check") /\ UNCHANGED <<loc, ret>>
       ELSE Return(t, <<>>, FALSE)
    /\ UNCHANGED <<proposals, wf_rest>>

(* lines 106-107 (133-134): if proposal.status != PENDING: return None *)
resolve_check(t) ==
    /\ pc[t] = "resolve_check"
    /\ IF proposals[loc[t].id].status = PENDING
       THEN Goto(t, "resolve_status") /\ UNCHANGED <<loc, ret>>
       ELSE Return(t, <<>>, FALSE)
    /\ UNCHANGED <<proposals, wf_rest>>

(* line 109 (136): proposal.status = APPROVED (REJECTED) *)
resolve_status(t) ==
    /\ pc[t] = "resolve_status"
    /\ proposals' = [proposals EXCEPT ![loc[t].id].status = loc[t].status]
    /\ Goto(t, "resolve_by")
    /\ UNCHANGED <<loc, ret, wf_rest>>

(* line 110 (137): proposal.approved_by = approver_id *)
resolve_by(t) ==
    /\ pc[t] = "resolve_by"
    /\ proposals' = [proposals EXCEPT ![loc[t].id].approved_by = loc[t].who]
    /\ Goto(t, "resolve_reason")
    /\ UNCHANGED <<loc, ret, wf_rest>>

(* line 111 (138): proposal.approval_reason = reason or "Approved" (reason) *)
resolve_reason(t) ==
    /\ pc[t] = "resolve_reason"
    /\ proposals' = [proposals EXCEPT ![loc[t].id].approval_reason = loc[t].reason]
    /\ Goto(t, "resolve_return")
    /\ UNCHANGED <<loc, ret, wf_rest>>

(* lines 114-120 (141-147): the callbacks, then return proposal *)
resolve_return(t) ==
    /\ pc[t] = "resolve_return"
    /\ LET which == IF loc[t].op = "approve" THEN "on_approved" ELSE "on_rejected"
           fc == FireCallbacks(Registry, which, 1, proposals[loc[t].id])
       IN  Return(t, IF fc.exc THEN <<>> ELSE <<loc[t].id>>, fc.exc)
    /\ UNCHANGED <<proposals, wf_rest>>

call_list_pending(t, twin) ==
    /\ pc[t] = "idle"
    /\ loc' = [loc EXCEPT ![t] = [op |-> "list_pending", id |-> 0, twin |-> twin]]
    /\ Goto(t, "list_now")
    /\ ret' = [ret EXCEPT ![t] = NoRet]
    /\ UNCHANGED <<proposals, wf_rest>>

(* lines 155-158: now = utcnow().isoformat() + "Z"; pending = []; the       *)
(* iterator over self._proposals.values() notes the size of the dict.       *)
list_now(t) ==
    /\ pc[t] = "list_now"
    /\ loc' = [loc EXCEPT ![t] = [op |-> "list_pending", id |-> 0, twin |-> loc[t].twin,
                                  nowStr |-> IsoFormat(now), pending |-> <<>>,
                                  size |-> Len(proposals), idx |-> 0]]
    /\ Goto(t, "list_next")
    /\ UNCHANGED <<proposals, ret, wf_rest>>

(* line 158: the iterator's next(): RuntimeError (dictionary changed size   *)
(* during iteration) when a proposal was inserted since, the end of the     *)
(* loop, or the next proposal.                                              *)
list_next(t) ==
    /\ pc[t] = "list_next"
    /\ IF Len(proposals) # loc[t].size
       THEN Return(t, <<>>, TRUE)
       ELSE IF loc[t].idx = loc[t].size
       THEN Goto(t, "list_return") /\ UNCHANGED <<loc, ret>>
       ELSE /\ loc' = [loc EXCEPT ![t].idx = loc[t].idx + 1]
            /\ Goto(t, "list_status")
            /\ UNCHANGED ret
    /\ UNCHANGED <<proposals, wf_rest>>

(* lines 159-160: if proposal.status != PENDING: continue *)
list_status(t) ==
    /\ pc[t] = "list_status"
    /\ IF proposals[loc[t].idx].status # PENDING
       THEN Goto(t, "list_next")
       ELSE Goto(t, "list_expiry")
    /\ UNCHANGED <<proposals, loc, ret, wf_rest>>

(* lines 161-165 and 169: the subject filter and the expiry test, which     *)
(* read fields no call writes; pending.append(proposal)                     *)
list_expiry(t) ==
    /\ pc[t] = "list_expiry"
    /\ LET p == proposals[loc[t].idx]
       IN  IF Truthy(loc[t].twin) /\ p.twin_id # loc[t].twin
           THEN Goto(t, "list_next") /\ UNCHANGED loc
           ELSE IF PastExpiry(p, loc[t].nowStr)
           THEN Goto(t, "list_flip") /\ UNCHANGED loc
           ELSE /\ loc' = [loc EXCEPT ![t].pending = Append(loc[t].pending, loc[t].idx)]
                /\ Goto(t, "list_next")
    /\ UNCHANGED <<proposals, ret, wf_rest>>

(* lines 166-167: proposal.status = EXPIRED; continue *)
list_flip(t) ==
    /\ pc[t] = "list_flip"
    /\ proposals' = [proposals EXCEPT ![loc[t].idx].status = EXPIRED]
    /\ Goto(t, "list_next")
    /\ UNCHANGED <<loc, ret, wf_rest>>

(* line 171: return sorted(pending, key=created_at, reverse=True) *)
list_return(t) ==
    /\ pc[t] = "list_return"
    /\ Return(t, SortNewestFirst(proposals, loc[t].pending, Len(loc[t].pending)), FALSE)
    /\ UNCHANGED <<proposals, wf_rest>>

----------------------------------------------------------------------------
(* Initial state: ApprovalWorkflow.__init__, the clock at tick 0, no call    *)
(* made and every thread idle.                                               *)

(***************************************************************************)
(* Decision Maker (policy/decision_maker.py).                              *)
(*                                                                         *)
(* A confidence total is kept in hundredths (0.90 is 90), so the threshold *)
(* comparisons are integer comparisons.  A proposed action is None or a    *)
(* dict; of a dict the model keeps the two keys the code reads, "type" and *)
(* "emergency", each possibly absent.  A decision id (a fresh uuid in the  *)
(* code) is the position of the decision in the log; the timestamp of a    *)
(* Decision is not kept.                                                   *)
(***************************************************************************)
MaxDecisions == 1       \* decide calls
MaxConstraints == 2     \* add_safety_constraint calls

THRESHOLD_AUTO_EXECUTE == 90
THRESHOLD_REQUIRE_APPROVAL == 70

AUTO_EXECUTE == "auto_execute"
REQUIRE_APPROVAL == "require_approval"
REQUIRE_ANALYSIS == "require_analysis"
REJECT == "reject"
DecisionType == {AUTO_EXECUTE, REQUIRE_APPROVAL, REQUIRE_ANALYSIS, REJECT}

Absent == "absent"      \* a key the dict does not have

NoAction == [given |-> FALSE, type |-> Absent, emergency |-> Absent]
ActionDict(type, emergency) == [given |-> TRUE, type |-> type, emergency |-> emergency]

(* `not action`: None and the empty dict are both falsy. *)
NotAction(action) ==
    \/ ~action.given
    \/ action.type = Absent /\ action.emergency = Absent

(* action.get("type", "") *)
ActionType(action) == IF action.type = Absent THEN "" ELSE action.type

(* not action.get("emergency", False) *)
NotEmergency_KeyMissing(action) == action.emergency = Absent
NotEmergency(action) == action.emergency # "true"

(* action_type in constraint.get("forbid", []); a constraint without the    *)
(* key has the empty forbid-list.                                           *)
Forbids_Nothing(constraint, action_type) == FALSE
Forbids(constraint, action_type) == action_type \in constraint.forbid

(* constraint.get("reason", <the default message>) *)
ReasonOf(constraint, action_type) ==
    IF constraint.reason = Absent
    THEN <<"Action type", action_type, "is forbidden">>
    ELSE <<constraint.reason>>

Passed == [passed |-> TRUE, reason |-> <<>>]
Failed(reason) == [passed |-> FALSE, reason |-> reason]

(* The loop over the registered constraints, from constraint i on: the     *)
(* first one that forbids the type fails the check; when none does, the    *)
(* built-in shutdown rule decides.                                         *)
RECURSIVE ConstraintLoop(_, _, _)
ConstraintLoop(constraints, action, i) ==
    IF i > Len(constraints)
    THEN IF ActionType(action) = "shutdown" /\ NotEmergency(action)
         THEN Failed(<<"Non-emergency shutdown requires explicit emergency flag">>)
         ELSE Passed
    ELSE IF Forbids(constraints[i], ActionType(action))
         THEN Failed(ReasonOf(constraints[i], ActionType(action)))
         ELSE ConstraintLoop(constraints, action, i + 1)

(* check_safety_constraints with the emergency flag exempting an action    *)
(* from the registered constraints as well.                                *)
check_safety_constraints_EmergencyExempts(constraints, action) ==
    IF NotAction(action) \/ ~NotEmergency(action)
    THEN Passed
    ELSE ConstraintLoop(constraints, action, 1)

check_safety_constraints(constraints, action) ==
    IF NotAction(action) THEN Passed ELSE ConstraintLoop(constraints, action, 1)

Decision(id, type, confidence, reasoning, action, safety) ==
    [decision_id |-> id, decision_type |-> type, confidence |-> confidence,
     reasoning |-> reasoning, recommended_action |-> action,
     safety_check_passed |-> safety]

Reasoning(text, confidence, reason) ==
    [text |-> text, confidence |-> confidence, reason |-> reason]

(* confidence >= THRESHOLDS[...] *)
Reaches_Strictly(confidence, threshold) == confidence > threshold
Reaches(confidence, threshold) == confidence >= threshold

DecideOutcome_AnalysisKeepsAction(constraints, id, confidence, action) ==
    LET safety == check_safety_constraints(constraints, action) IN
    IF ~safety.passed
    THEN Decision(id, REJECT, confidence,
                  Reasoning("Safety constraint violation", confidence, safety.reason),
                  NoAction, FALSE)
    ELSE IF Reaches(confidence, THRESHOLD_AUTO_EXECUTE)
    THEN Decision(id, AUTO_EXECUTE, confidence,
                  Reasoning("High confidence - auto execution approved", confidence, <<>>),
                  action, TRUE)
    ELSE IF Reaches(confidence, THRESHOLD_REQUIRE_APPROVAL)
    THEN Decision(id, REQUIRE_APPROVAL, confidence,
                  Reasoning("Medium confidence - human approval required", confidence, <<>>),
                  action, TRUE)
    ELSE Decision(id, REQUIRE_ANALYSIS, confidence,
                  Reasoning("Low confidence - additional analysis needed", confidence, <<>>),
                  action, TRUE)

DecideOutcome(constraints, id, confidence, action) ==
    LET safety == check_safety_constraints(constraints, action) IN
    IF ~safety.passed
    THEN Decision(id, REJECT, confidence,
                  Reasoning("Safety constraint violation", confidence, safety.reason),
                  NoAction, FALSE)
    ELSE IF Reaches(confidence, THRESHOLD_AUTO_EXECUTE)
    THEN Decision(id, AUTO_EXECUTE, confidence,
                  Reasoning("High confidence - auto execution approved", confidence, <<>>),
                  action, TRUE)
    ELSE IF Reaches(confidence, THRESHOLD_REQUIRE_APPROVAL)
    THEN Decision(id, REQUIRE_APPROVAL, confidence,
                  Reasoning("Medium confidence - human approval required", confidence, <<>>),
                  action, TRUE)
    ELSE Decision(id, REQUIRE_ANALYSIS, confidence,
                  Reasoning("Low confidence - additional analysis needed", confidence, <<>>),
                  NoAction, TRUE)

NoDecision == Decision(0, REJECT, 0, Reasoning("", 0, <<>>), NoAction, TRUE)

add_safety_constraint(constraint) ==
    /\ safety_constraints' = Append(safety_constraints, constraint)
    /\ UNCHANGED <<decision_log, dm_last, not_dm>>

decide_Prepending(confidence, proposed_action) ==
    /\ LET decision == DecideOutcome(safety_constraints, Len(decision_log) + 1,
                                     confidence, proposed_action)
       IN  /\ decision_log' = <<decision>> \o decision_log
           /\ dm_last' = decision
    /\ UNCHANGED <<safety_constraints, not_dm>>

decide(confidence, proposed_action) ==
    /\ LET decision == DecideOutcome(safety_constraints, Len(decision_log) + 1,
                                     confidence, proposed_action)
       IN  /\ decision_log' = Append(decision_log, decision)
           /\ dm_last' = decision
    /\ UNCHANGED <<safety_constraints, not_dm>>

(***************************************************************************)
(* Permission Authority (policy/permission_model.py).                      *)
(*                                                                         *)
(* A scope pattern and a resource id are sequences of characters, so that  *)
(* the glob match is computed; the empty sequence stands for None and for  *)
(* the empty string, which the code's truth tests do not tell apart.  The  *)
(* timestamp of an audit entry is not kept.                                *)
(***************************************************************************)
MaxAudit == 2           \* check_permission calls (each appends one audit entry)

READ == "read"
PROPOSE == "propose"
APPROVE == "approve"
EXECUTE == "execute"
Permission == {READ, PROPOSE, APPROVE, EXECUTE}

Role(name, permissions, scope) ==
    [name |-> name, permissions |-> permissions, scope |-> scope]

has_permission(role, permission) == permission \in role.permissions

DEFAULT_ROLES_ExecutorProposes ==
    [n \in {"viewer", "agent", "supervisor", "executor", "admin"} |->
        CASE n = "viewer" -> Role(n, {READ}, <<>>)
          [] n = "agent" -> Role(n, {READ, PROPOSE}, <<>>)
          [] n = "supervisor" -> Role(n, {READ, PROPOSE, APPROVE}, <<>>)
          [] n = "executor" -> Role(n, {READ, PROPOSE, EXECUTE}, <<>>)
          [] n = "admin" -> Role(n, {READ, PROPOSE, APPROVE, EXECUTE}, <<>>)]
DEFAULT_ROLES ==
    [n \in {"viewer", "agent", "supervisor", "executor", "admin"} |->
        CASE n = "viewer" -> Role(n, {READ}, <<>>)
          [] n = "agent" -> Role(n, {READ, PROPOSE}, <<>>)
          [] n = "supervisor" -> Role(n, {READ, PROPOSE, APPROVE}, <<>>)
          [] n = "executor" -> Role(n, {READ, EXECUTE}, <<>>)
          [] n = "admin" -> Role(n, {READ, PROPOSE, APPROVE, EXECUTE}, <<>>)]

(* ROLE_HIERARCHY.get(role_name, []) *)
ROLE_HIERARCHY(role_name) ==
    CASE role_name = "admin" -> {"supervisor", "executor"}
      [] role_name = "supervisor" -> {"agent", "viewer"}
      [] role_name = "executor" -> {"viewer"}
      [] role_name = "agent" -> {"viewer"}
      [] OTHER -> {}

(* The roles assigned to the user and, for each of them, the roles the     *)
(* hierarchy lists under it: the loop runs over a snapshot of the assigned *)
(* roles, so what it adds is not expanded again.                           *)
get_effective_roles_DefaultViewer(assigned, user_id) ==
    LET direct_roles == IF user_id \in DOMAIN assigned THEN assigned[user_id] ELSE {"viewer"}
    IN  direct_roles \cup UNION {ROLE_HIERARCHY(role_name) : role_name \in direct_roles}
get_effective_roles(assigned, user_id) ==
    LET direct_roles == IF user_id \in DOMAIN assigned THEN assigned[user_id] ELSE {}
    IN  direct_roles \cup UNION {ROLE_HIERARCHY(role_name) : role_name \in direct_roles}

(* fnmatch.fnmatch(resource_id, scope_pattern), for patterns of literal    *)
(* characters and "*".                                                     *)
RECURSIVE match_scope(_, _)
match_scope(scope_pattern, resource_id) ==
    IF scope_pattern = <<>> THEN resource_id = <<>>
    ELSE IF Head(scope_pattern) = "*"
    THEN \/ match_scope(Tail(scope_pattern), resource_id)
         \/ resource_id # <<>> /\ match_scope(scope_pattern, Tail(resource_id))
    ELSE /\ resource_id # <<>>
         /\ Head(resource_id) = Head(scope_pattern)
         /\ match_scope(Tail(scope_pattern), Tail(resource_id))

(* One role of the loop in check_permission returns True. *)
Grants(table, role_name, permission, resource_id) ==
    /\ role_name \in DOMAIN table
    /\ has_permission(table[role_name], permission)
    /\ \/ table[role_name].scope = <<>>
       \/ resource_id = <<>>
       \/ match_scope(table[role_name].scope, resource_id)

CheckOutcome(table, assigned, user_id, permission, resource_id) ==
    \E role_name \in get_effective_roles(assigned, user_id) :
        Grants(table, role_name, permission, resource_id)

log_access_Prepend(log, user_id, permission, resource_id, result) ==
    <<[user_id |-> user_id, permission |-> permission,
       resource_id |-> resource_id,
       result |-> IF result THEN "granted" ELSE "denied"]>> \o log
log_access(log, user_id, permission, resource_id, result) ==
    Append(log, [user_id |-> user_id, permission |-> permission,
                 resource_id |-> resource_id,
                 result |-> IF result THEN "granted" ELSE "denied"])

(* What a call gave back: the value returned, the error raised (if any)    *)
(* and, for get_audit_log, the entries returned.                           *)
NoError == [type |-> "None", user_id |-> "", permission |-> "", resource_id |-> <<>>]
Returned(op, r) == [op |-> op, ret |-> r, exc |-> NoError, log |-> <<>>]
Raised(op, error) == [op |-> op, ret |-> "None", exc |-> error, log |-> <<>>]

(* PermissionError(f"User {user_id} lacks {permission.value} permission"   *)
(* + (f" for {resource_id}" if resource_id else "")): the message names    *)
(* the resource only when one was given.                                   *)
PermissionError_NoResource(user_id, permission, resource_id) ==
    [type |-> "PermissionError", user_id |-> user_id, permission |-> permission,
     resource_id |-> <<>>]
PermissionError(user_id, permission, resource_id) ==
    [type |-> "PermissionError", user_id |-> user_id, permission |-> permission,
     resource_id |-> resource_id]

register_role_KeepFirst(role) ==
    /\ roles' = [n \in DOMAIN roles \cup {role.name} |->
                    IF n \in DOMAIN roles THEN roles[n] ELSE role]
    /\ pm_last' = Returned("register_role", "None")
    /\ UNCHANGED <<user_roles, audit_log, not_pm>>
register_role(role) ==
    /\ roles' = [n \in DOMAIN roles \cup {role.name} |->
                    IF n = role.name THEN role ELSE roles[n]]
    /\ pm_last' = Returned("register_role", "None")
    /\ UNCHANGED <<user_roles, audit_log, not_pm>>

assign_role_Replace(user_id, role_name) ==
    /\ IF role_name \notin DOMAIN roles
       THEN /\ pm_last' = Returned("assign_role", "False")
            /\ UNCHANGED user_roles
       ELSE /\ user_roles' = [u \in DOMAIN user_roles \cup {user_id} |->
                                 IF u = user_id THEN {role_name} ELSE user_roles[u]]
            /\ pm_last' = Returned("assign_role", "True")
    /\ UNCHANGED <<roles, audit_log, not_pm>>

assign_role(user_id, role_name) ==
    /\ IF role_name \notin DOMAIN roles
       THEN /\ pm_last' = Returned("assign_role", "False")
            /\ UNCHANGED user_roles
       ELSE /\ user_roles' = [u \in DOMAIN user_roles \cup {user_id} |->
                                 IF u = user_id
                                 THEN (IF u \in DOMAIN user_roles
                                       THEN user_roles[u] ELSE {}) \cup {role_name}
                                 ELSE user_roles[u]]
            /\ pm_last' = Returned("assign_role", "True")
    /\ UNCHANGED <<roles, audit_log, not_pm>>

(* assign_role statement by statement, for threads that call it in         *)
(* parallel: the test of the role name (lines 78-79), the membership test  *)
(* of line 81, the creation of the empty set (line 82), and the add with   *)
(* the return (lines 84-85).  loc[t].id is the pair of the call's          *)
(* arguments; the value returned is kept as a one-element sequence.        *)
pm_rest == <<roles, audit_log, pm_last, proposals, on_approved_cbs, on_rejected_cbs,
             now, wf_last, dm_vars, cs_vars, ds_vars>>

call_assign_role(t, user_id, role_name) ==
    /\ pc[t] = "idle"
    /\ loc' = [loc EXCEPT ![t] =
                  [op |-> "assign_role", id |-> <<user_id, role_name>>,
                   user_id |-> user_id, role_name |-> role_name]]
    /\ Goto(t, "assign_known")
    /\ ret' = [ret EXCEPT ![t] = NoRet]
    /\ UNCHANGED <<user_roles, pm_rest>>

(* if role_name not in self._roles: return False *)
assign_known(t) ==
    /\ pc[t] = "assign_known"
    /\ IF loc[t].role_name \notin DOMAIN roles
       THEN Return(t, <<"False">>, FALSE)
       ELSE Goto(t, "assign_test") /\ UNCHANGED <<loc, ret>>
    /\ UNCHANGED <<user_roles, pm_rest>>

(* if user_id not in self._user_roles *)
assign_test(t) ==
    /\ pc[t] = "assign_test"
    /\ IF loc[t].user_id \notin DOMAIN user_roles
       THEN Goto(t, "assign_create")
       ELSE Goto(t, "assign_add")
    /\ UNCHANGED <<loc, ret, user_roles, pm_rest>>

(* self._user_roles[user_id] = set() *)
assign_create(t) ==
    /\ pc[t] = "assign_create"
    /\ user_roles' = [u \in DOMAIN user_roles \cup {loc[t].user_id} |->
                         IF u = loc[t].user_id THEN {} ELSE user_roles[u]]
    /\ Goto(t, "assign_add")
    /\ UNCHANGED <<loc, ret, pm_rest>>

(* self._user_roles[user_id].add(role_name); return True *)
assign_add(t) ==
    /\ pc[t] = "assign_add"
    /\ user_roles' = [user_roles EXCEPT ![loc[t].user_id] = @ \cup {loc[t].role_name}]
    /\ Return(t, <<"True">>, FALSE)
    /\ UNCHANGED pm_rest

check_permission(user_id, permission, resource_id) ==
    /\ Len(audit_log) < MaxAudit
    /\ LET result == CheckOutcome(roles, user_roles, user_id, permission, resource_id)
       IN  /\ audit_log' = log_access(audit_log, user_id, permission, resource_id, result)
           /\ pm_last' = Returned("check_permission", IF result THEN "True" ELSE "False")
    /\ UNCHANGED <<roles, user_roles, not_pm>>

(* check_permission, then the error when it returned False. *)
require_permission(user_id, permission, resource_id) ==
    /\ Len(audit_log) < MaxAudit
    /\ LET result == CheckOutcome(roles, user_roles, user_id, permission, resource_id)
       IN  /\ audit_log' = log_access(audit_log, user_id, permission, resource_id, result)
           /\ pm_last' = IF ~result
                         THEN Raised("require_permission",
                                     PermissionError(user_id, permission, resource_id))
                         ELSE Returned("require_permission", "None")
    /\ UNCHANGED <<roles, user_roles, not_pm>>

(* self._audit_log[-limit:]: the last `limit` entries for a positive       *)
(* limit, the whole log for 0, and the log without its first -limit        *)
(* entries for a negative one.                                             *)
LastEntries(log, limit) ==
    IF limit > 0
    THEN SubSeq(log, (IF Len(log) > limit THEN Len(log) - limit ELSE 0) + 1, Len(log))
    ELSE SubSeq(log, (IF Len(log) > -limit THEN -limit ELSE Len(log)) + 1, Len(log))

get_audit_log(limit) ==
    /\ pm_last' = [Returned("get_audit_log", "None") EXCEPT !.log = LastEntries(audit_log, limit)]
    /\ UNCHANGED <<roles, user_roles, audit_log, not_pm>>

(* DecisionMaker.get_decision_log(limit): self._decision_log[-limit:], the *)
(* same slice of the decision log.                                         *)
get_decision_log(limit) == LastEntries(decision_log, limit)

(***************************************************************************)
(* Confidence Scorer (policy/confidence_scorer.py).                        *)
(*                                                                         *)
(* Numbers are exact fractions [num, den] with a positive denominator; the *)
(* binary floating point of the code is not modelled, so a value that lies *)
(* exactly halfway between two 4-digit numbers is rounded to the even one, *)
(* as round() does on an exact tie.  The reasoning text of a result is not *)
(* kept.                                                                   *)
(***************************************************************************)
MaxHistory == 10        \* record_outcome calls per subject

Unit == 10000           \* round(x, 4): four decimal digits
WeightScale == 100      \* the weights are hundredths
MIN_HISTORY == 10       \* len(history) < 10: not enough data

Frac(num, den) == [num |-> num, den |-> den]
FracLeq(a, b) == a.num * b.den =< b.num * a.den

(* round(n / d) for d > 0, to the nearest integer, a tie to the even one. *)
RoundHalfEven_Floor(n, d) == n \div d
RoundHalfEven(n, d) ==
    LET q == n \div d
        r == n - q * d
    IN  IF 2 * r < d THEN q
        ELSE IF 2 * r > d THEN q + 1
        ELSE IF q % 2 = 0 THEN q ELSE q + 1

WEIGHTS ==
    [historical_success_rate |-> 25, data_quality_score |-> 25,
     simulation_consistency |-> 30, ai_consensus_score |-> 20]

Outcome(action_id, success, confidence) ==
    [action_id |-> action_id, success |-> success, confidence |-> confidence]

(* self._history.get(twin_id, []) *)
HistoryOf(hist, twin_id) == IF twin_id \in DOMAIN hist THEN hist[twin_id] ELSE <<>>

compute_historical_success_AllSubjects(hist, twin_id) ==
    LET all == {<<t, i>> : t \in DOMAIN hist, i \in 1..MaxHistory + 1}
        kept == {x \in all : x[2] \in DOMAIN hist[x[1]]}
        successes == Cardinality({x \in kept : hist[x[1]][x[2]].success})
    IN  IF Cardinality(kept) < MIN_HISTORY THEN Frac(1, 2)
        ELSE Frac(successes, Cardinality(kept))

compute_historical_success(hist, twin_id) ==
    LET h == HistoryOf(hist, twin_id)
        successes == Cardinality({i \in DOMAIN h : h[i].success})
    IN  IF Len(h) < MIN_HISTORY THEN Frac(1, 2) ELSE Frac(successes, Len(h))

(* A simulation result is None or a dict; of a dict the model keeps its     *)
(* keys and the values of its "uncertainty" mapping, in units of 1/100000.  *)
(* A dict without keys is the empty dict, which Python's "not" treats as    *)
(* it treats None.                                                          *)
UncertaintyUnit == 100000
NoSimulation == [given |-> FALSE, keys |-> {}, uncertainty |-> {}]
EmptySimulation == [given |-> TRUE, keys |-> {}, uncertainty |-> {}]
Simulation(uncertainty) ==
    [given |-> TRUE, keys |-> {"uncertainty"}, uncertainty |-> uncertainty]
SimulationWithout == [given |-> TRUE, keys |-> {"yield"}, uncertainty |-> {}]

NotSimulation(simulation_result) ==
    ~simulation_result.given \/ simulation_result.keys = {}

GetUncertainty(simulation_result) ==
    IF "uncertainty" \in simulation_result.keys THEN simulation_result.uncertainty ELSE {}

Max(S) == CHOOSE x \in S : \A y \in S : y =< x

compute_sim_consistency(simulation_result) ==
    IF NotSimulation(simulation_result) THEN Frac(1, 2)
    ELSE IF GetUncertainty(simulation_result) = {} THEN Frac(4, 5)
    ELSE LET max_std == Max(GetUncertainty(simulation_result))
             consistency == IF UncertaintyUnit - max_std < 0 THEN 0
                            ELSE UncertaintyUnit - max_std
         IN  Frac(RoundHalfEven(consistency, UncertaintyUnit \div Unit), Unit)

(* The agents are given by their recommendations; "" stands for a missing  *)
(* or empty one.  None and the empty list are both the empty sequence.     *)
Recommendations(ai_agents) == {i \in DOMAIN ai_agents : ai_agents[i] # ""}

compute_ai_consensus(ai_agents) ==
    IF Len(ai_agents) < 2 THEN Frac(1, 2)
    ELSE IF Recommendations(ai_agents) = {} THEN Frac(1, 2)
    ELSE LET recs == Recommendations(ai_agents)
             most_common_count ==
                 Max({Cardinality({j \in recs : ai_agents[j] = ai_agents[i]}) : i \in recs})
         IN  Frac(RoundHalfEven(most_common_count * Unit, Cardinality(recs)), Unit)

(* data_quality is None or a number, given in units of 1/10000. *)
NoQuality == [given |-> FALSE, value |-> 0]
Quality(value) == [given |-> TRUE, value |-> value]

DataQualityScore(data_quality) ==
    IF data_quality.given THEN Frac(data_quality.value, Unit) ELSE Frac(4, 5)

Components(hist, twin_id, data_quality, simulation_result, ai_agents) ==
    [historical_success_rate |-> compute_historical_success(hist, twin_id),
     data_quality_score |-> DataQualityScore(data_quality),
     simulation_consistency |-> compute_sim_consistency(simulation_result),
     ai_consensus_score |-> compute_ai_consensus(ai_agents)]

(* sum(components[key] * WEIGHTS[key]) as one fraction.  Every denominator *)
(* divides Unit times the denominator of the historical rate.              *)
WeightedSum(components) ==
    LET common == Unit * components.historical_success_rate.den
    IN  Frac(components.historical_success_rate.num * WEIGHTS.historical_success_rate
                 * (common \div components.historical_success_rate.den)
             + components.data_quality_score.num * WEIGHTS.data_quality_score
                 * (common \div components.data_quality_score.den)
             + components.simulation_consistency.num * WEIGHTS.simulation_consistency
                 * (common \div components.simulation_consistency.den)
             + components.ai_consensus_score.num * WEIGHTS.ai_consensus_score
                 * (common \div components.ai_consensus_score.den),
             WeightScale * common)

(* round(total, 4): the denominator of the sum is a multiple of Unit. *)
Round4(x) == Frac(RoundHalfEven(x.num, x.den \div Unit), Unit)

ConfidenceResult(total, components) == [total |-> total, components |-> components]

(* The result built from the components (lines 85-91). *)
ResultOf(components) == ConfidenceResult(Round4(WeightedSum(components)), components)

CalculateOutcome(hist, twin_id, data_quality, simulation_result, ai_agents) ==
    CHOOSE result \in
        {ResultOf(components) :
            components \in {Components(hist, twin_id, data_quality,
                                       simulation_result, ai_agents)}} : TRUE

NoResult ==
    ConfidenceResult(Frac(0, 1),
                     [historical_success_rate |-> Frac(0, 1), data_quality_score |-> Frac(0, 1),
                      simulation_consistency |-> Frac(0, 1), ai_consensus_score |-> Frac(0, 1)])

calculate_Touching(twin_id, data_quality, simulation_result, ai_agents) ==
    /\ cs_last' = CalculateOutcome(history, twin_id, data_quality, simulation_result, ai_agents)
    /\ history' = [t \in DOMAIN history \cup {twin_id} |-> HistoryOf(history, t)]
    /\ UNCHANGED not_cs

calculate(twin_id, data_quality, simulation_result, ai_agents) ==
    /\ cs_last' = CalculateOutcome(history, twin_id, data_quality, simulation_result, ai_agents)
    /\ UNCHANGED <<history, not_cs>>

HISTORY_LIMIT == 1000   \* at most the last 1000 outcomes of a subject are kept

record_outcome_DropTwo(twin_id, action_id, success, confidence_at_decision) ==
    /\ LET appended == Append(HistoryOf(history, twin_id),
                              Outcome(action_id, success, confidence_at_decision))
           kept == IF Len(appended) > HISTORY_LIMIT
                   THEN SubSeq(appended, Len(appended) - HISTORY_LIMIT + 2, Len(appended))
                   ELSE appended
       IN  history' = [t \in DOMAIN history \cup {twin_id} |->
                          IF t = twin_id THEN kept ELSE history[t]]
    /\ UNCHANGED <<cs_last, not_cs>>

record_outcome(twin_id, action_id, success, confidence_at_decision) ==
    /\ LET appended == Append(HistoryOf(history, twin_id),
                              Outcome(action_id, success, confidence_at_decision))
           kept == IF Len(appended) > HISTORY_LIMIT
                   THEN SubSeq(appended, Len(appended) - HISTORY_LIMIT + 1, Len(appended))
                   ELSE appended
       IN  history' = [t \in DOMAIN history \cup {twin_id} |->
                          IF t = twin_id THEN kept ELSE history[t]]
    /\ UNCHANGED <<cs_last, not_cs>>

(* record_outcome statement by statement, for threads that call it in       *)
(* parallel: the membership test of line 143, the creation of the empty     *)
(* list (line 144), the append (lines 146-152) and the truncation (lines    *)
(* 155-156, whose branch a history of fewer than 1000 outcomes never        *)
(* takes).  loc[t].id is the action_id of the call.                         *)
cs_rest == <<cs_last, proposals, on_approved_cbs, on_rejected_cbs, now, wf_last,
             dm_vars, pm_vars, ds_vars>>

call_record_outcome(t, twin_id, action_id, success, confidence_at_decision) ==
    /\ pc[t] = "idle"
    /\ loc' = [loc EXCEPT ![t] =
                  [op |-> "record_outcome", id |-> action_id, twin_id |-> twin_id,
                   record |-> Outcome(action_id, success, confidence_at_decision)]]
    /\ Goto(t, "record_test")
    /\ UNCHANGED <<ret, history, cs_rest>>

(* if twin_id not in self._history *)
record_test(t) ==
    /\ pc[t] = "record_test"
    /\ IF loc[t].twin_id \notin DOMAIN history
       THEN Goto(t, "record_create")
       ELSE Goto(t, "record_append")
    /\ UNCHANGED <<loc, ret, history, cs_rest>>

(* self._history[twin_id] = [] *)
record_create(t) ==
    /\ pc[t] = "record_create"
    /\ history' = [x \in DOMAIN history \cup {loc[t].twin_id} |->
                      IF x = loc[t].twin_id THEN <<>> ELSE history[x]]
    /\ Goto(t, "record_append")
    /\ UNCHANGED <<loc, ret, cs_rest>>

(* self._history[twin_id].append({...}) *)
record_append(t) ==
    /\ pc[t] = "record_append"
    /\ history' = [history EXCEPT ![loc[t].twin_id] = Append(@, loc[t].record)]
    /\ Goto(t, "record_trim")
    /\ UNCHANGED <<loc, ret, cs_rest>>

(* if len(...) > 1000: self._history[twin_id] = self._history[twin_id][-1000:] *)
record_trim(t) ==
    /\ pc[t] = "record_trim"
    /\ LET h == history[loc[t].twin_id]
       IN  history' = [history EXCEPT ![loc[t].twin_id] =
                          IF Len(h) > HISTORY_LIMIT
                          THEN SubSeq(h, Len(h) - HISTORY_LIMIT + 1, Len(h))
                          ELSE h]
    /\ Return(t, <<>>, FALSE)
    /\ UNCHANGED cs_rest

(***************************************************************************)
(* Diff stream (aiw/diff_stream.py): CursorManager and DiffEngine.          *)
(*                                                                         *)
(* A string is the sequence of its characters, so that formatting and      *)
(* parsing a cursor are computed.  <<>> stands for None and for the empty   *)
(* string, which `since_cursor or INITIAL_CURSOR` does not tell apart.      *)
(***************************************************************************)
MaxEvents == 3          \* append_event calls explored

DigitChars == <<"0", "1", "2", "3", "4", "5", "6", "7", "8", "9">>
IsDigit(c) == \E d \in DOMAIN DigitChars : DigitChars[d] = c
DigitValue(c) == (CHOOSE d \in DOMAIN DigitChars : DigitChars[d] = c) - 1

(* str(n) for n >= 0 *)
RECURSIVE Digits(_)
Digits(n) ==
    IF n < 10 THEN <<DigitChars[n + 1]>>
    ELSE Digits(n \div 10) \o <<DigitChars[(n % 10) + 1]>>

RECURSIVE ZeroPad(_, _)
ZeroPad(s, width) == IF Len(s) >= width THEN s ELSE ZeroPad(<<"0">> \o s, width)

(* f"{n:0{width}d}": the sign counts in the width *)
FormatD(n, width) ==
    IF n < 0 THEN <<"-">> \o ZeroPad(Digits(-n), width - 1)
    ELSE ZeroPad(Digits(n), width)

CursorPrefix == <<"c", "u", "r", "s", "o", "r", "_">>

(* format_cursor: f"cursor_{offset:06d}" *)
format_cursor(offset) ==
    CHOOSE cursor \in {CursorPrefix \o FormatD(n, 6) : n \in {offset}} : TRUE

INITIAL_CURSOR == CursorPrefix \o <<"0", "0", "0", "0", "0", "0">>

(* cursor.split("_"): the fields between the underscores *)
RECURSIVE Split(_, _, _)
Split(s, i, field) ==
    IF i > Len(s) THEN <<field>>
    ELSE IF s[i] = "_" THEN <<field>> \o Split(s, i + 1, <<>>)
    ELSE Split(s, i + 1, Append(field, s[i]))

RECURSIVE DecimalValue(_, _, _)
DecimalValue(s, i, acc) ==
    IF i > Len(s) THEN acc ELSE DecimalValue(s, i + 1, 10 * acc + DigitValue(s[i]))

(* int(field): an optional sign and decimal digits; anything else raises   *)
(* ValueError (white space, which int() strips, is not in the alphabet).   *)
IntSign(field) == IF field # <<>> /\ field[1] \in {"-", "+"} THEN Tail(field) ELSE field
IsIntLiteral(field) ==
    /\ IntSign(field) # <<>>
    /\ \A i \in DOMAIN IntSign(field) : IsDigit(IntSign(field)[i])
IntOf(field) ==
    IF field[1] = "-" THEN -DecimalValue(IntSign(field), 1, 0)
    ELSE DecimalValue(IntSign(field), 1, 0)

(* int(fields[1]) of the split cursor, 0 on IndexError or ValueError *)
FieldValue(fields) ==
    IF Len(fields) < 2 THEN 0
    ELSE IF ~IsIntLiteral(fields[2]) THEN 0
    ELSE IntOf(fields[2])

(* parse_cursor: int(cursor.split("_")[1]) in its try statement; the       *)
(* cursor is split once.                                                   *)
parse_cursor(cursor) ==
    CHOOSE offset \in {FieldValue(fields) : fields \in {Split(cursor, 1, <<>>)}} : TRUE

(* DiffEvent; the event_id is f"evt_{n:08d}".  data is None ("None") or a   *)
(* payload.                                                                *)
DiffEvent(event_type, timestamp, twin_id, n, data) ==
    [event_type |-> event_type, timestamp |-> timestamp, twin_id |-> twin_id,
     event_id |-> <<"e", "v", "t", "_">> \o FormatD(n, 8), data |-> data]

(* _serialize_event: "data" is a key of the result only when event.data is *)
(* truthy.                                                                 *)
serialize_event(event) ==
    [type |-> event.event_type, ts |-> event.timestamp, twin_id |-> event.twin_id,
     id |-> event.event_id,
     data |-> IF event.data # NoneVal THEN event.data ELSE Absent]

(* A slice index as Python normalises it for a list of length n. *)
SliceIndex(i, n) ==
    IF i < 0 THEN (IF i + n < 0 THEN 0 ELSE i + n)
    ELSE IF i > n THEN n ELSE i

(* log[start : stop] *)
Slice(log, start, stop) ==
    SubSeq(log, SliceIndex(start, Len(log)) + 1, SliceIndex(stop, Len(log)))

(* get_events from the parsed offset on (lines 80-90) *)
EventsFrom_SkipsOne(log, cursor, offset, limit) ==
    LET events == Slice(log, offset, offset + limit)
        next_offset == offset + Len(events) + (IF events = <<>> THEN 0 ELSE 1)
    IN  [since |-> cursor,
         next_cursor |-> format_cursor(next_offset),
         events |-> [i \in DOMAIN events |-> serialize_event(events[i])]]

EventsFrom(log, cursor, offset, limit) ==
    LET events == Slice(log, offset, offset + limit)
        next_offset == offset + Len(events)
    IN  [since |-> cursor,
         next_cursor |-> format_cursor(next_offset),
         events |-> [i \in DOMAIN events |-> serialize_event(events[i])]]

(* get_events, lines 76-90; the offset is parsed once *)
GetEventsOutcome(log, since_cursor, limit) ==
    LET cursor == IF since_cursor = <<>> THEN INITIAL_CURSOR ELSE since_cursor
    IN  CHOOSE result \in {EventsFrom(log, cursor, offset, limit) :
                               offset \in {parse_cursor(cursor)}} : TRUE

StreamCall(op, arg, r) == [op |-> op, arg |-> arg, ret |-> r]
NoStreamCall == StreamCall(NoneVal, <<>>, <<>>)

get_cursor(subscriber_id) ==
    /\ ds_last' = StreamCall("get_cursor", subscriber_id,
                             IF subscriber_id \in DOMAIN cursors
                             THEN cursors[subscriber_id] ELSE INITIAL_CURSOR)
    /\ UNCHANGED <<cursors, event_log, current_offset, client_cursor, client_seen, not_ds>>

set_cursor(subscriber_id, cursor) ==
    /\ cursors' = [s \in DOMAIN cursors \cup {subscriber_id} |->
                      IF s = subscriber_id THEN cursor ELSE cursors[s]]
    /\ ds_last' = StreamCall("set_cursor", subscriber_id, <<>>)
    /\ UNCHANGED <<event_log, current_offset, client_cursor, client_seen, not_ds>>

call_parse_cursor(cursor) ==
    /\ ds_last' = StreamCall("parse_cursor", cursor, parse_cursor(cursor))
    /\ UNCHANGED <<cursors, event_log, current_offset, client_cursor, client_seen, not_ds>>

call_format_cursor(offset) ==
    /\ ds_last' = StreamCall("format_cursor", offset, format_cursor(offset))
    /\ UNCHANGED <<cursors, event_log, current_offset, client_cursor, client_seen, not_ds>>

(* DiffEngine.append_event (lines 92-109) with CursorManager.append_event  *)
(* (lines 57-61), which it calls.                                          *)
append_event(event_type, twin_id, data) ==
    /\ LET event == DiffEvent(event_type, IsoFormat(now), twin_id, current_offset + 1, data)
       IN  /\ current_offset' = current_offset + 1
           /\ event_log' = Append(event_log, event)
           /\ ds_last' = StreamCall("append_event", <<>>, event)
    /\ UNCHANGED <<cursors, client_cursor, client_seen, not_ds>>

get_events(since_cursor, limit) ==
    /\ ds_last' = StreamCall("get_events", <<since_cursor, limit>>,
                             GetEventsOutcome(event_log, since_cursor, limit))
    /\ UNCHANGED <<cursors, event_log, current_offset, client_cursor, client_seen, not_ds>>

(* The consumer's step: GET /diff with the cursor it holds (api/routes/     *)
(* diff.py); it keeps the events returned and the next_cursor.              *)
client_poll(limit) ==
    /\ \E result \in {GetEventsOutcome(event_log, client_cursor, limit)} :
           /\ ds_last' = StreamCall("get_events", <<client_cursor, limit>>, result)
           /\ client_cursor' = result.next_cursor
           /\ client_seen' = client_seen \o result.events
    /\ UNCHANGED <<cursors, event_log, current_offset, not_ds>>

Init ==
    /\ proposals = <<>>
    /\ on_approved_cbs = <<>>
    /\ on_rejected_cbs = <<>>
    /\ now = 0
    /\ wf_last = NoCall
    /\ pc = [t \in Threads |-> "idle"]
    /\ loc = [t \in Threads |-> IdleLoc]
    /\ ret = [t \in Threads |-> NoRet]
    /\ safety_constraints = <<>>
    /\ decision_log = <<>>
    /\ dm_last = NoDecision
    /\ roles = DEFAULT_ROLES
    /\ user_roles = <<>>
    /\ audit_log = <<>>
    /\ pm_last = Returned("__init__", "None")
    /\ history = <<>>
    /\ cs_last = NoResult
    /\ cursors = <<>>
    /\ event_log = <<>>
    /\ current_offset = 0
    /\ ds_last = NoStreamCall
    /\ client_cursor = INITIAL_CURSOR
    /\ client_seen = <<>>

(* The workflow with one caller, the clock and expiry; no callback is        *)
(* registered.                                                               *)
TimeoutHours == {0, 1}
SubjectFilters == {NoneVal, ""} \cup TwinIds

NextWF ==
    \/ \E twin \in TwinIds, h \in TimeoutHours, d \in 0..1 :
          /\ Len(proposals) < MaxProposals
          /\ now + d <= MaxTime
          /\ create_proposal(twin, h, d)
    \/ \E id \in ProposalIds : approve(id, "alice", NoneVal)
    \/ \E id \in ProposalIds : reject(id, "bob", "no")
    \/ \E id \in ProposalIds : get_proposal(id)
    \/ \E twin \in SubjectFilters : list_pending(twin)
    \/ Tick

SpecWF == Init /\ [][NextWF]_vars

(* The workflow with one caller and callbacks: registration, creation with   *)
(* the default timeout and resolution; the clock stands still.               *)
DEFAULT_TIMEOUT_HOURS == 24
ApproveReasons == {NoneVal, "", "ok"}
RejectReasons == {"no"}
Resolvers == {"alice"}

NextCB ==
    \/ \E cb \in CallbackKinds : on_approved(cb)
    \/ \E cb \in CallbackKinds : on_rejected(cb)
    \/ Len(proposals) < MaxProposals /\ create_proposal("twA", DEFAULT_TIMEOUT_HOURS, 0)
    \/ \E id \in ProposalIds, who \in Resolvers, r \in ApproveReasons : approve(id, who, r)
    \/ \E id \in ProposalIds, who \in Resolvers, r \in RejectReasons : reject(id, who, r)

SpecCB == Init /\ [][NextCB]_vars

(* The workflow with one caller and callbacks that call back into it; the   *)
(* clock stands still.                                                      *)
ReentrantCallbacks == {"ok"} \cup ReentrantKinds

NextReentrant ==
    \/ \E cb \in ReentrantCallbacks : on_approved(cb)
    \/ \E cb \in ReentrantCallbacks : on_rejected(cb)
    \/ Len(proposals) < MaxProposals /\ create_proposal("twA", DEFAULT_TIMEOUT_HOURS, 0)
    \/ \E id \in ProposalIds : approve_reentrant(id, "alice", "ok")
    \/ \E id \in ProposalIds : reject_reentrant(id, "bob", "no")

SpecReentrant == Init /\ [][NextReentrant]_vars

(* The workflow with threads: proposals are created (the insertion into    *)
(* the dict is one step), already past their expiry or not, and every       *)
(* thread calls approve, reject and list_pending; the clock stands still.   *)
ThreadTimeoutHours == {-1, 1}

NextConc ==
    \/ \E h \in ThreadTimeoutHours :
          Len(proposals) < MaxProposals /\ create_proposal("twA", h, 0)
    \/ \E t \in Threads :
          \/ \E id \in 1..MaxProposals : call_approve(t, id, NoneVal)
          \/ \E id \in 1..MaxProposals : call_reject(t, id, "no")
          \/ \E twin \in {NoneVal, "twB"} : call_list_pending(t, twin)
          \/ resolve_get(t)
          \/ resolve_check(t)
          \/ resolve_status(t)
          \/ resolve_by(t)
          \/ resolve_reason(t)
          \/ resolve_return(t)
          \/ list_now(t)
          \/ list_next(t)
          \/ list_status(t)
          \/ list_expiry(t)
          \/ list_flip(t)
          \/ list_return(t)

SpecConc == Init /\ [][NextConc]_vars

(* The workflow through several creations: proposals of both subjects with *)
(* no timeout and with the default one, created beside a first proposal    *)
(* that was approved or not; the clock advances between and within the      *)
(* calls.                                                                   *)
MaxCreated == 2         \* create_proposal calls in the creation's specification
CreateHours == {0, DEFAULT_TIMEOUT_HOURS}

NextCreate ==
    \/ \E twin \in TwinIds, h \in CreateHours, d \in 0..1 :
          /\ Len(proposals) < MaxCreated
          /\ now + d <= MaxTime
          /\ create_proposal(twin, h, d)
    \/ approve(1, "alice", "ok")
    \/ Tick

SpecCreate == Init /\ [][NextCreate]_vars

(* The Decision Maker alone: totals at and next to both thresholds and at   *)
(* the ends of [0, 1]; no action, the empty dict, and typed actions with    *)
(* and without the emergency flag.                                          *)
Totals == {0, 69, 70, 89, 90, 100}
ProposedActions ==
    {NoAction, ActionDict(Absent, Absent), ActionDict("adjust", Absent),
     ActionDict("restart", "true"), ActionDict("shutdown", Absent),
     ActionDict("shutdown", "false"), ActionDict("shutdown", "true")}
Constraints ==
    {[forbid |-> {"restart"}, reason |-> "policy"],
     [forbid |-> {"restart", "shutdown"}, reason |-> Absent],
     [forbid |-> {}, reason |-> "nothing"]}

NextDM ==
    \/ \E constraint \in Constraints :
          /\ Len(safety_constraints) < MaxConstraints
          /\ add_safety_constraint(constraint)
    \/ \E confidence \in Totals, action \in ProposedActions :
          /\ Len(decision_log) < MaxDecisions
          /\ decide(confidence, action)

SpecDM == Init /\ [][NextDM]_vars

(* The Decision Maker through several decisions: a low, a medium and a high *)
(* confidence, no action, an action a constraint forbids and one it does     *)
(* not.                                                                      *)
MaxLogged == 2          \* decide calls in the log's specification
LoggedTotals == {69, 70, 90}
LoggedActions == {NoAction, ActionDict("restart", "true"), ActionDict("adjust", Absent)}
LoggedConstraints == {[forbid |-> {"restart"}, reason |-> "policy"]}

NextDMLog ==
    \/ \E constraint \in LoggedConstraints :
          /\ Len(safety_constraints) < MaxConstraints
          /\ add_safety_constraint(constraint)
    \/ \E confidence \in LoggedTotals, action \in LoggedActions :
          /\ Len(decision_log) < MaxLogged
          /\ decide(confidence, action)

SpecDMLog == Init /\ [][NextDMLog]_vars

(* The Permission Authority alone: built-in roles registered again with no *)
(* permission, a scoped custom role, one user who is assigned roles and    *)
(* checked from before the first assignment on.                            *)
Users == {"u1"}
RegisteredRoles ==
    {Role("admin", {}, <<>>), Role("supervisor", {}, <<>>),
     Role("auditor", {READ, EXECUTE}, <<"a", "*">>)}
AssignedNames == {"admin", "supervisor", "viewer", "auditor", "ghost"}
Resources == {<<>>, <<"a", "b">>, <<"b", "a">>}

NextPerm ==
    \/ \E role \in RegisteredRoles : register_role(role)
    \/ \E user_id \in Users, role_name \in AssignedNames : assign_role(user_id, role_name)
    \/ \E user_id \in Users, permission \in Permission, resource_id \in Resources :
          check_permission(user_id, permission, resource_id)

SpecPerm == Init /\ [][NextPerm]_vars

(* The audit trail: one scoped custom role, one user who is assigned roles  *)
(* and one who never is, checks and requirements with and without a        *)
(* resource id, and reads of the log.                                      *)
AuditUsers == {"u1", "u2"}
AuditRoles == {Role("auditor", {READ, EXECUTE}, <<"a", "*">>)}
AuditNames == {"viewer", "auditor", "ghost"}
AuditPermissions == {READ, EXECUTE}
AuditResources == {<<>>, <<"b", "a">>}
AuditLimits == {1, 100}

NextAudit ==
    \/ \E role \in AuditRoles : register_role(role)
    \/ \E role_name \in AuditNames : assign_role("u1", role_name)
    \/ \E user_id \in AuditUsers, permission \in AuditPermissions,
          resource_id \in AuditResources :
          check_permission(user_id, permission, resource_id)
    \/ \E user_id \in AuditUsers, permission \in AuditPermissions,
          resource_id \in AuditResources :
          require_permission(user_id, permission, resource_id)
    \/ \E limit \in AuditLimits : get_audit_log(limit)

SpecAudit == Init /\ [][NextAudit]_vars

(* The built-in role table as shipped: nothing is registered, one user is  *)
(* assigned built-in roles (and a name that is not a role) and checked     *)
(* without a resource id.                                                  *)
BuiltinNames == {"viewer", "agent", "supervisor", "executor", "admin", "ghost"}

NextBuiltin ==
    \/ \E role_name \in BuiltinNames : assign_role("u1", role_name)
    \/ \E permission \in Permission : check_permission("u1", permission, <<>>)

SpecBuiltin == Init /\ [][NextBuiltin]_vars

(* Role assignment: a custom role that is registered at some point, two    *)
(* users, names that are roles from the start, later, or never, and a      *)
(* check of what was assigned.                                             *)
NextAssign ==
    \/ \E role \in AuditRoles : register_role(role)
    \/ \E user_id \in AuditUsers, role_name \in AuditNames : assign_role(user_id, role_name)
    \/ \E user_id \in AuditUsers : check_permission(user_id, READ, <<>>)

SpecAssign == Init /\ [][NextAssign]_vars

(* Role definitions that change: a custom role with two definitions and a  *)
(* built-in role redefined without permissions, assigned to a user before  *)
(* or after they change, and checked.  The roles used have no scope and    *)
(* nothing below them in the hierarchy.                                    *)
Redefinitions ==
    {Role("auditor", {APPROVE}, <<>>), Role("auditor", {READ, EXECUTE}, <<>>),
     Role("viewer", {}, <<>>)}
RedefinedNames == {"auditor", "viewer"}

NextRegister ==
    \/ \E role \in Redefinitions : register_role(role)
    \/ \E role_name \in RedefinedNames : assign_role("u1", role_name)
    \/ \E permission \in Permission : check_permission("u1", permission, <<>>)

SpecRegister == Init /\ [][NextRegister]_vars

(* Threads assigning roles in parallel: every thread makes one call, for   *)
(* one of two users, with a built-in role or a name that is not a role.     *)
ThreadUsers == {"u1", "u2"}
ThreadRoleNames == {"viewer", "agent", "ghost"}

NextAssignConc ==
    \E t \in Threads :
        \/ \E user_id \in ThreadUsers, role_name \in ThreadRoleNames :
              /\ ret[t] = NoRet
              /\ call_assign_role(t, user_id, role_name)
        \/ assign_known(t)
        \/ assign_test(t)
        \/ assign_create(t)
        \/ assign_add(t)

SpecAssignConc == Init /\ [][NextAssignConc]_vars

(* The Confidence Scorer without history: every combination of a data     *)
(* quality inside and outside [0, 1], simulation results with and without *)
(* uncertainties, and agent lists that agree, disagree or say nothing.    *)
Qualities == {NoQuality, Quality(0), Quality(3333), Quality(10000), Quality(50000), Quality(-5000)}
Simulations ==
    {NoSimulation, EmptySimulation, SimulationWithout, Simulation({}),
     Simulation({5000, 12344}), Simulation({2000}), Simulation({150000}), Simulation({-100000})}
AgentLists ==
    {<<>>, <<"a">>, <<"a", "a">>, <<"a", "b", "a">>, <<"", "">>, <<"a", "", "b">>, <<"a", "">>}

NextCalc ==
    \E twin_id \in TwinIds, data_quality \in Qualities, simulation_result \in Simulations,
       ai_agents \in AgentLists :
       calculate(twin_id, data_quality, simulation_result, ai_agents)

SpecCalc == Init /\ [][NextCalc]_vars

(* The Confidence Scorer with the outcome history of one subject. *)
HistoryQualities == {NoQuality, Quality(3333)}
HistorySimulations == {NoSimulation, Simulation({5000, 12344})}
HistoryAgentLists == {<<>>, <<"a", "b", "a">>}

NextCS ==
    \/ \E success \in BOOLEAN :
          /\ Len(HistoryOf(history, "twA")) < MaxHistory
          /\ record_outcome("twA", "act", success, 9000)
    \/ \E data_quality \in HistoryQualities, simulation_result \in HistorySimulations,
          ai_agents \in HistoryAgentLists :
          calculate("twA", data_quality, simulation_result, ai_agents)

SpecCS == Init /\ [][NextCS]_vars

(* The histories of two subjects side by side.  What matters of a history  *)
(* is how many outcomes it holds and how many are successes, so each       *)
(* subject records its failures first and its successes after them.        *)
FailuresFirst(twin_id, success) ==
    \/ success
    \/ \A i \in DOMAIN HistoryOf(history, twin_id) : ~HistoryOf(history, twin_id)[i].success

NextHist ==
    \/ \E twin_id \in TwinIds, success \in BOOLEAN :
          /\ Len(HistoryOf(history, twin_id)) < MaxHistory
          /\ FailuresFirst(twin_id, success)
          /\ record_outcome(twin_id, "act", success, 9000)
    \/ \E twin_id \in TwinIds : calculate(twin_id, NoQuality, NoSimulation, <<>>)

SpecHist == Init /\ [][NextHist]_vars

(* Histories long enough to overflow the window.  The caller numbers the   *)
(* outcomes of a subject 1, 2, 3, ... in the action_id, and the n-th        *)
(* outcome is a success exactly when n is even, so a history shows which    *)
(* outcomes it retains.                                                     *)
MaxRecorded == 1001   \* outcomes recorded for the first subject
MaxOther == 2         \* outcomes recorded for the second subject

Recorded(twin_id) ==
    IF HistoryOf(history, twin_id) = <<>> THEN 0
    ELSE HistoryOf(history, twin_id)[Len(HistoryOf(history, twin_id))].action_id

NthOutcome(n) == Outcome(n, n % 2 = 0, 9000)

RecordNext(twin_id) ==
    record_outcome(twin_id, Recorded(twin_id) + 1, (Recorded(twin_id) + 1) % 2 = 0, 9000)

NextCap ==
    \/ Recorded("twA") < MaxRecorded /\ RecordNext("twA")
    \/ Recorded("twB") < MaxOther /\ RecordNext("twB")

SpecCap == Init /\ [][NextCap]_vars

(* Threads recording outcomes of one subject in parallel.  The n-th call of *)
(* a thread carries an action_id no other call carries; ret[t].id is the    *)
(* action_id of the thread's last call that returned.                       *)
MaxRecordCalls == 2     \* record_outcome calls of each thread

RecordId(t, n) == 2 * n + (IF t = "t1" THEN 0 ELSE 1)
RecordCalls(t) == ret[t].id \div 2

NextRec ==
    \E t \in Threads :
        \/ /\ RecordCalls(t) < MaxRecordCalls
           /\ call_record_outcome(t, "twA", RecordId(t, RecordCalls(t) + 1), TRUE, 9000)
        \/ record_test(t)
        \/ record_create(t)
        \/ record_append(t)
        \/ record_trim(t)

SpecRec == Init /\ [][NextRec]_vars

(* The cursors alone: offsets with fewer and with more than six digits;    *)
(* cursor strings that format_cursor produces and strings it does not.      *)
Subscribers == {"s1", "s2"}
Offsets == {0, 1, 100, 999999, 1000000, 1234567}
OtherStrings ==
    {<<>>, <<"c", "u", "r", "s", "o", "r">>, CursorPrefix,
     CursorPrefix \o <<"a", "b", "c">>, CursorPrefix \o <<"1", "2", "x">>,
     CursorPrefix \o <<"-">>, CursorPrefix \o <<"-", "5">>,
     CursorPrefix \o <<"_", "7">>, <<"x", "_", "7", "_", "y">>}
CursorStrings == {format_cursor(n) : n \in Offsets} \cup OtherStrings

NextCursor ==
    \/ \E subscriber_id \in Subscribers : get_cursor(subscriber_id)
    \/ \E subscriber_id \in Subscribers, cursor \in CursorStrings :
          set_cursor(subscriber_id, cursor)
    \/ \E cursor \in CursorStrings : call_parse_cursor(cursor)
    \/ \E offset \in Offsets : call_format_cursor(offset)

SpecCursor == Init /\ [][NextCursor]_vars

(* The stream with one consumer: events of one subject, with and without   *)
(* data, are appended while the consumer polls with the cursor it was       *)
(* returned last.  The limits are the default, small ones, and the ones a   *)
(* direct caller may pass (0, negative).  The consumer keeps polling with a *)
(* positive limit, which is what GET /diff accepts.                         *)
Limits == {-1, 0, 1, 2, 100}
PositiveLimits == {limit \in Limits : limit >= 1}
EventData == {NoneVal, "d"}

NextStream ==
    \/ \E data \in EventData :
          /\ current_offset < MaxEvents
          /\ append_event("TelemetryAppended", "twA", data)
    \/ \E limit \in Limits : client_poll(limit)

SpecStream ==
    /\ Init
    /\ [][NextStream]_vars
    /\ WF_vars(\E limit \in PositiveLimits : client_poll(limit))

----------------------------------------------------------------------------
(* Claims on the workflow with one caller *)

(* The tick a timestamp string stands for (the inverse of IsoFormat). *)
IsoTick(str) == str[1] * TicksPerSec + (IF Len(str) = 2 THEN 0 ELSE str[3])

Range(seq) == {seq[k] : k \in DOMAIN seq}

(* C2: once a proposal has left PENDING no call changes its status, its     *)
(* approved_by or its approval_reason, and it stays in the table.           *)
C2_ResolvedIsFinal ==
    [][\A i \in DOMAIN proposals :
          proposals[i].status # PENDING =>
              /\ i \in DOMAIN proposals'
              /\ proposals'[i].status = proposals[i].status
              /\ proposals'[i].approved_by = proposals[i].approved_by
              /\ proposals'[i].approval_reason = proposals[i].approval_reason]_vars

(* C2 witness: approve has just been called on a proposal that list_pending *)
(* had flipped to EXPIRED, and returned None.                               *)
C2_Witness ==
    /\ wf_last.op = "approve"
    /\ wf_last.ret = <<>>
    /\ wf_last.id \in DOMAIN proposals
    /\ proposals[wf_last.id].status = EXPIRED

(* C6 as claimed: when list_pending has returned, whatever the filter, no   *)
(* proposal whose expiry lies before the current time is still PENDING.     *)
C6_NoPendingPastExpiry ==
    wf_last.op = "list_pending" =>
        \A i \in DOMAIN proposals :
            IsoTick(proposals[i].expires_at) < now => proposals[i].status # PENDING

(* C7 as claimed: a proposal whose expiry is not in the future (created     *)
(* with timeout_hours = 0, or its time has come) is not PENDING after the   *)
(* next list_pending call and is not in what that call returns.             *)
C7_ExpiredOnNextList ==
    wf_last.op = "list_pending" =>
        \A i \in DOMAIN proposals :
            IsoTick(proposals[i].expires_at) <= now =>
                /\ proposals[i].status # PENDING
                /\ i \notin Range(wf_last.ret)

(* A step of SpecCB that is a call of approve or reject (a registration     *)
(* changes one of the callback lists).                                      *)
ResolveCall ==
    /\ on_approved_cbs' = on_approved_cbs
    /\ on_rejected_cbs' = on_rejected_cbs
    /\ wf_last'.op \in {"approve", "reject"}

WasResolvable(id) == id \in DOMAIN proposals /\ proposals[id].status = PENDING

(* The contract of approve and reject, the reason approve records given by  *)
(* the flag: None is returned, nothing changes and no callback is called    *)
(* exactly when the id is unknown or the proposal not PENDING; otherwise    *)
(* the proposal is returned and approve sets APPROVED, the approver and the *)
(* reason.                                                                  *)
ResolveContract(emptyIsNone) ==
    ResolveCall =>
        LET c == wf_last'
        IN  /\ ~WasResolvable(c.id) =>
                  c.ret = <<>> /\ c.fired = <<>> /\ proposals' = proposals
            /\ WasResolvable(c.id) =>
                  /\ c.ret = <<c.id>>
                  /\ c.op = "approve" =>
                        /\ proposals'[c.id].status = APPROVED
                        /\ proposals'[c.id].approved_by = c.who
                        /\ proposals'[c.id].approval_reason =
                              (IF c.reason = NoneVal \/ (emptyIsNone /\ c.reason = "")
                               THEN "Approved" ELSE c.reason)

(* C9 as claimed: ... approve records the reason passed, "Approved" when    *)
(* none is given.                                                           *)
C9_ReasonAsGiven == [][ResolveContract(FALSE)]_vars

(* C9 as amended: approve or reject on an unknown id or a proposal that is  *)
(* not PENDING returns None, changes no proposal and calls no callback; on  *)
(* a PENDING proposal approve sets APPROVED, the approver and the reason,   *)
(* "Approved" when the reason is None or the empty string, and returns the  *)
(* proposal.                                                                *)
C9_ResolveContract == [][ResolveContract(TRUE)]_vars

(* C9 witness: a second approve on a proposal approved without a reason has *)
(* just returned None.                                                      *)
C9_Witness ==
    /\ wf_last.op = "approve"
    /\ wf_last.ret = <<>>
    /\ wf_last.id \in DOMAIN proposals
    /\ proposals[wf_last.id].status = APPROVED
    /\ proposals[wf_last.id].approval_reason = "Approved"

C37_CallbacksAfterWrite ==
    (wf_last.op \in {"approve", "reject"} /\ wf_last.ret # <<>>) =>
        LET c == wf_last
            status == IF c.op = "approve" THEN APPROVED ELSE REJECTED
            reason == IF c.op = "approve" /\ c.reason \in {NoneVal, ""}
                      THEN "Approved" ELSE c.reason
            IsWritten(p) == /\ p.status = status
                            /\ p.approved_by = c.who
                            /\ p.approval_reason = reason
        IN  /\ \A k \in DOMAIN c.fired :
                   /\ IsWritten(c.fired[k].seen)
                   /\ c.fired[k].cb \in ReentrantKinds =>
                          c.fired[k].nested = << <<>> >> /\ c.fired[k].inner = <<>>
            /\ IsWritten(proposals[c.id])

(* C37 witness: approve has returned the proposal after calling two         *)
(* callbacks, the first of which called reject and the second approve on    *)
(* the proposal; both were returned None and the proposal is APPROVED by    *)
(* the caller.                                                              *)
C37_Witness ==
    /\ wf_last.op = "approve"
    /\ wf_last.ret = <<wf_last.id>>
    /\ Len(wf_last.fired) = 2
    /\ wf_last.fired[1].cb = "reject_again"
    /\ wf_last.fired[1].nested = << <<>> >>
    /\ wf_last.fired[2].cb = "approve_again"
    /\ wf_last.fired[2].seen.status = APPROVED
    /\ proposals[wf_last.id].status = APPROVED
    /\ proposals[wf_last.id].approved_by = "alice"

----------------------------------------------------------------------------
(* Claims on the workflow with threads *)

Resolved(t) == ret[t].op \in {"approve", "reject"} /\ ret[t].ret # <<>>

(* C1 as claimed: of the approve and reject calls made in parallel on one   *)
(* PENDING proposal exactly one returns the proposal: no two threads have   *)
(* both been returned the same proposal.                                    *)
C1_ExactlyOneSuccess ==
    \A t, u \in Threads :
        (t # u /\ Resolved(t) /\ Resolved(u)) => ret[t].id # ret[u].id

(* C8 as claimed: with list_pending running beside approve or reject, a     *)
(* proposal leaves PENDING once: a proposal that approve or reject has      *)
(* returned is never EXPIRED afterwards, and an EXPIRED proposal never      *)
(* becomes APPROVED or REJECTED.                                            *)
C8_OneTransition ==
    [][\A i \in DOMAIN proposals :
          /\ proposals[i].status = EXPIRED => proposals'[i].status = EXPIRED
          /\ (\E t \in Threads : Resolved(t) /\ ret[t].id = i) =>
                 proposals'[i].status # EXPIRED]_vars

(* C35 as claimed, read where it is weakest, in the states where no call is *)
(* in progress: approved_by and approval_reason are None exactly when the   *)
(* status is PENDING or EXPIRED, and otherwise status, resolver and reason  *)
(* are those of one call (approve is called without a reason and records    *)
(* "Approved", reject is called with "no", the resolver is the calling      *)
(* thread).                                                                 *)
C35_FieldsOfOneCall ==
    (\A t \in Threads : pc[t] = "idle") =>
        \A i \in DOMAIN proposals :
            LET p == proposals[i]
            IN  /\ p.status \in {PENDING, EXPIRED} <=>
                       (p.approved_by = NoneVal /\ p.approval_reason = NoneVal)
                /\ p.status = APPROVED =>
                       p.approved_by \in Threads /\ p.approval_reason = "Approved"
                /\ p.status = REJECTED =>
                       p.approved_by \in Threads /\ p.approval_reason = "no"

----------------------------------------------------------------------------
(* Claims on the Decision Maker *)

(* Some registered constraint lists the type of the proposed action. *)
TypeForbidden(action) ==
    /\ action.given
    /\ action.type # Absent
    /\ \E i \in DOMAIN safety_constraints : action.type \in safety_constraints[i].forbid

(* C3: at every confidence total, decide on an action whose type is in the  *)
(* forbid-list of a registered safety constraint returns a REJECT decision  *)
(* with safety_check_passed false; and of every decision in the log,        *)
(* safety_check_passed is false exactly when its type is REJECT.            *)
C3_SafetyDominates ==
    [][\A confidence \in Totals, action \in ProposedActions :
          decide(confidence, action) =>
              /\ TypeForbidden(action) =>
                     /\ dm_last'.decision_type = REJECT
                     /\ ~dm_last'.safety_check_passed
              /\ \A i \in DOMAIN decision_log' :
                     ~decision_log'[i].safety_check_passed
                         <=> decision_log'[i].decision_type = REJECT]_vars

(* A forbidden action was rejected at the highest confidence, with the      *)
(* reason of the constraint that forbids it.                                *)
C3_Witness ==
    /\ decision_log # <<>>
    /\ dm_last.decision_type = REJECT
    /\ dm_last.confidence = 100
    /\ dm_last.reasoning.reason = <<"policy">>

(* The safety check passes, in the words of the claim: nothing is proposed, *)
(* or what is proposed is forbidden by no registered constraint and is not  *)
(* a shutdown without the emergency flag.                                   *)
SafetyPasses(action) ==
    \/ ~action.given
    \/ /\ \A i \in DOMAIN safety_constraints :
              action.type \notin safety_constraints[i].forbid
       /\ ~(action.type = "shutdown" /\ action.emergency # "true")

(* C4: when the safety check passes, decide returns AUTO_EXECUTE iff the    *)
(* total is at least 0.90, REQUIRE_APPROVAL iff it is at least 0.70 and     *)
(* below 0.90, and REQUIRE_ANALYSIS iff it is below 0.70.                   *)
C4_Thresholds ==
    [][\A confidence \in Totals, action \in ProposedActions :
          decide(confidence, action) /\ SafetyPasses(action) =>
              /\ dm_last'.decision_type = AUTO_EXECUTE <=> confidence >= 90
              /\ dm_last'.decision_type = REQUIRE_APPROVAL
                     <=> (70 =< confidence /\ confidence < 90)
              /\ dm_last'.decision_type = REQUIRE_ANALYSIS <=> confidence < 70]_vars

(* The boundary value 0.70 has been decided, with a constraint registered   *)
(* that does not forbid the action: approval is asked for.                  *)
C4_Witness ==
    /\ decision_log # <<>>
    /\ safety_constraints # <<>>
    /\ dm_last.confidence = 70
    /\ dm_last.decision_type = REQUIRE_APPROVAL
    /\ dm_last.recommended_action = ActionDict("shutdown", "true")

----------------------------------------------------------------------------
(* Claims on the Permission Authority *)

(* The roles reachable from a set of roles in at most n steps of the       *)
(* hierarchy.                                                              *)
RECURSIVE ReachableIn(_, _)
ReachableIn(names, n) ==
    IF n = 0 THEN names
    ELSE ReachableIn(names \cup UNION {ROLE_HIERARCHY(r) : r \in names}, n - 1)

(* The hierarchy has five roles, so four steps reach everything. *)
Reachable(names) == ReachableIn(names, 4)

AssignedTo(user_id) ==
    IF user_id \in DOMAIN user_roles THEN user_roles[user_id] ELSE {}

(* C5: check_permission(user, permission) with no resource id returns true *)
(* whenever some role reachable through the hierarchy, in any number of    *)
(* steps, from a role assigned to the user grants the permission.          *)
C5_InheritedGrant ==
    [][\A user_id \in Users, permission \in Permission :
          /\ check_permission(user_id, permission, <<>>)
          /\ \E role_name \in Reachable(AssignedTo(user_id)) :
                /\ role_name \in DOMAIN roles
                /\ permission \in roles[role_name].permissions
          => pm_last'.ret = "True"]_vars

(* The audit entry of one call. *)
AuditEntry(user_id, permission, resource_id, verdict) ==
    [user_id |-> user_id, permission |-> permission, resource_id |-> resource_id,
     result |-> IF verdict THEN "granted" ELSE "denied"]

(* C11: every check_permission call, granted or denied, for a known or an  *)
(* unknown user, appends exactly one audit entry carrying the user id, the *)
(* permission, the resource id and the verdict of the call, and changes    *)
(* neither the role table nor the assignments; a user with no role         *)
(* assignment is denied every permission.                                  *)
C11_OneEntryPerCheck ==
    [][\A user_id \in AuditUsers, permission \in AuditPermissions,
          resource_id \in AuditResources :
          check_permission(user_id, permission, resource_id) =>
              /\ pm_last'.ret \in {"True", "False"}
              /\ audit_log' = Append(audit_log,
                                     AuditEntry(user_id, permission, resource_id,
                                                pm_last'.ret = "True"))
              /\ roles' = roles
              /\ user_roles' = user_roles
              /\ AssignedTo(user_id) = {} => pm_last'.ret = "False"]_vars

(* A user who was never assigned a role was denied and audited, and a      *)
(* later check of an assigned user was granted and audited.                *)
C11_Witness ==
    /\ pm_last.op = "check_permission"
    /\ "u2" \notin DOMAIN user_roles
    /\ Len(audit_log) = 2
    /\ audit_log[1] = AuditEntry("u2", READ, <<"b", "a">>, FALSE)
    /\ audit_log[2] = AuditEntry("u1", READ, <<>>, TRUE)

(* The entry a check_permission or require_permission step was called with. *)
Checked(user_id, permission, resource_id) ==
    \/ check_permission(user_id, permission, resource_id)
    \/ require_permission(user_id, permission, resource_id)

(* C12: the audit log before any operation is a prefix of the audit log    *)
(* after it (no entry is removed, reordered or modified), and the entry of *)
(* a check is appended after all earlier ones, so the entries are in the   *)
(* order of the calls.                                                     *)
C12_AuditAppendOnly ==
    [][/\ Len(audit_log') >= Len(audit_log)
       /\ SubSeq(audit_log', 1, Len(audit_log)) = audit_log
       /\ \A user_id \in AuditUsers, permission \in AuditPermissions,
             resource_id \in AuditResources :
             Checked(user_id, permission, resource_id) =>
                 /\ Len(audit_log') = Len(audit_log) + 1
                 /\ audit_log'[Len(audit_log')].user_id = user_id
                 /\ audit_log'[Len(audit_log')].permission = permission
                 /\ audit_log'[Len(audit_log')].resource_id = resource_id]_vars

(* Two different checks were made and another operation followed: the log  *)
(* holds both entries, the earlier call first.                             *)
C12_Witness ==
    /\ pm_last.op = "register_role"
    /\ Len(audit_log) = 2
    /\ audit_log[1].permission = READ
    /\ audit_log[1].user_id = "u1"
    /\ audit_log[2].permission = EXECUTE
    /\ audit_log[2].user_id = "u2"

----------------------------------------------------------------------------
(* Claims on the Confidence Scorer *)

(* C13: whatever the data quality, the uncertainties, the agents and the   *)
(* recorded history, the total calculate returns is at least 0 and at most *)
(* 1.                                                                      *)
C13_TotalInUnitInterval ==
    /\ FracLeq(Frac(0, 1), cs_last.total)
    /\ FracLeq(cs_last.total, Frac(1, 1))

(* The weighted sum of returned components, weights 0.25, 0.25, 0.30 and   *)
(* 0.20, as a number of parts of 1 / (100 * Unit * den), den being the     *)
(* denominator of the historical rate.                                     *)
SumParts(components) ==
    LET common == Unit * components.historical_success_rate.den
    IN  25 * components.historical_success_rate.num
              * (common \div components.historical_success_rate.den)
        + 25 * components.data_quality_score.num
              * (common \div components.data_quality_score.den)
        + 30 * components.simulation_consistency.num
              * (common \div components.simulation_consistency.den)
        + 20 * components.ai_consensus_score.num
              * (common \div components.ai_consensus_score.den)

Abs(x) == IF x < 0 THEN -x ELSE x

(* C14: the total calculate returns is the weighted sum of the four        *)
(* components it returns, with weights 0.25, 0.25, 0.30 and 0.20 that sum  *)
(* to 1, rounded to 4 decimal digits: a 4-digit number at most half a unit *)
(* of the fourth digit away from the sum.                                  *)
C14_TotalIsWeightedSum ==
    LET parts == 100 * cs_last.components.historical_success_rate.den
    IN  /\ WEIGHTS.historical_success_rate = 25
        /\ WEIGHTS.data_quality_score = 25
        /\ WEIGHTS.simulation_consistency = 30
        /\ WEIGHTS.ai_consensus_score = 20
        /\ 25 + 25 + 30 + 20 = WeightScale
        /\ cs_last # NoResult =>
               /\ cs_last.total.den = Unit
               /\ 2 * Abs(cs_last.total.num * parts - SumParts(cs_last.components))
                      =< parts

(* A total was computed from ten recorded outcomes, seven of them          *)
(* successes, and agents two thirds of whom agree; the weighted sum had    *)
(* more than four digits, so it was rounded.                               *)
C14_Witness ==
    /\ Len(HistoryOf(history, "twA")) = 10
    /\ cs_last.components.historical_success_rate = Frac(7, 10)
    /\ cs_last.components.ai_consensus_score = Frac(6667, Unit)
    /\ cs_last.components.data_quality_score = Frac(3333, Unit)
    /\ SumParts(cs_last.components) % 1000 # 0

----------------------------------------------------------------------------
(* More claims on the Decision Maker *)

(* C15: a proposed action of type "shutdown" without a true emergency flag *)
(* is rejected, with safety_check_passed false, at any confidence and also *)
(* when no constraint is registered; a shutdown with emergency = true that *)
(* no registered constraint forbids passes the safety check and gets the   *)
(* decision of the confidence thresholds.                                  *)
C15_ShutdownNeedsEmergency ==
    [][\A confidence \in Totals, action \in ProposedActions :
          decide(confidence, action) /\ action.given /\ action.type = "shutdown" =>
              /\ action.emergency # "true" =>
                     /\ dm_last'.decision_type = REJECT
                     /\ ~dm_last'.safety_check_passed
              /\ action.emergency = "true" /\ ~TypeForbidden(action) =>
                     /\ dm_last'.safety_check_passed
                     /\ dm_last'.decision_type =
                            IF confidence >= 90 THEN AUTO_EXECUTE
                            ELSE IF confidence >= 70 THEN REQUIRE_APPROVAL
                            ELSE REQUIRE_ANALYSIS]_vars

(* With no constraint registered, a shutdown without the flag was rejected *)
(* at the highest confidence by the built-in rule.                         *)
C15_Witness ==
    /\ safety_constraints = <<>>
    /\ decision_log # <<>>
    /\ dm_last.decision_type = REJECT
    /\ dm_last.confidence = 100
    /\ dm_last.reasoning.reason =
           <<"Non-emergency shutdown requires explicit emergency flag">>

----------------------------------------------------------------------------
(* More claims on the Permission Authority *)

(* C16: check_permission returns true iff some effective role of the user  *)
(* grants the permission and, if that role declares a scope pattern, the   *)
(* given resource id matches the pattern; a role without a scope grants    *)
(* for any resource id and for an absent one.                              *)
C16_ScopedVerdict ==
    [][\A user_id \in Users, permission \in Permission, resource_id \in Resources :
          check_permission(user_id, permission, resource_id) =>
              (pm_last'.ret = "True" <=>
                  \E role_name \in get_effective_roles(user_roles, user_id) :
                      /\ role_name \in DOMAIN roles
                      /\ permission \in roles[role_name].permissions
                      /\ roles[role_name].scope # <<>> =>
                             /\ resource_id # <<>>
                             /\ match_scope(roles[role_name].scope, resource_id))]_vars

(* C17: the effective role set computed for a user in a check is the       *)
(* transitive closure of the roles assigned to the user under the          *)
(* hierarchy table (for admin alone: admin, supervisor, executor, agent    *)
(* and viewer).                                                            *)
C17_EffectiveIsClosure ==
    [][\A user_id \in Users, permission \in Permission, resource_id \in Resources :
          check_permission(user_id, permission, resource_id) =>
              get_effective_roles(user_roles, user_id) = Reachable(AssignedTo(user_id))]_vars

(* The permissions of the built-in roles, as the claim lists them. *)
BuiltinGrants(role_name) ==
    CASE role_name = "viewer" -> {"read"}
      [] role_name = "agent" -> {"read", "propose"}
      [] role_name = "supervisor" -> {"read", "propose", "approve"}
      [] role_name = "executor" -> {"read", "execute"}
      [] role_name = "admin" -> {"read", "propose", "approve", "execute"}

(* C18: with only the built-in roles registered and a user assigned        *)
(* exactly one of them, check_permission without a resource id is true     *)
(* exactly for viewer {Read}, agent {Read, Propose}, supervisor {Read,      *)
(* Propose, Approve}, executor {Read, Execute} and admin all four.         *)
C18_BuiltinTable ==
    [][\A permission \in Permission, role_name \in BuiltinNames \ {"ghost"} :
          /\ check_permission("u1", permission, <<>>)
          /\ DOMAIN roles = BuiltinNames \ {"ghost"}
          /\ AssignedTo("u1") = {role_name}
          => (pm_last'.ret = "True" <=> permission \in BuiltinGrants(role_name))]_vars

(* The scenario of the specification: a viewer was denied Execute and then *)
(* granted Read.                                                           *)
C18_Witness ==
    /\ AssignedTo("u1") = {"viewer"}
    /\ Len(audit_log) = 2
    /\ audit_log[1] = AuditEntry("u1", EXECUTE, <<>>, FALSE)
    /\ audit_log[2] = AuditEntry("u1", READ, <<>>, TRUE)

AssignedIn(assigned, user_id) ==
    IF user_id \in DOMAIN assigned THEN assigned[user_id] ELSE {}

(* C19: assign_role with a name that is not a registered role returns      *)
(* false and changes no user's assignments; otherwise it returns true and  *)
(* adds the role to the user's set (no other user's set changes), and when *)
(* the user already has the role (a repeated call) it returns true and     *)
(* leaves the assignments and the effective role set as they were.         *)
C19_AssignRole ==
    [][\A user_id \in AuditUsers, role_name \in AuditNames :
          assign_role(user_id, role_name) =>
              IF role_name \notin DOMAIN roles
              THEN /\ pm_last'.ret = "False"
                   /\ \A u \in AuditUsers :
                          AssignedIn(user_roles', u) = AssignedIn(user_roles, u)
              ELSE /\ pm_last'.ret = "True"
                   /\ AssignedIn(user_roles', user_id)
                          = AssignedIn(user_roles, user_id) \cup {role_name}
                   /\ \A u \in AuditUsers \ {user_id} :
                          AssignedIn(user_roles', u) = AssignedIn(user_roles, u)
                   /\ role_name \in AssignedIn(user_roles, user_id) =>
                          /\ user_roles' = user_roles
                          /\ get_effective_roles(user_roles', user_id)
                                 = get_effective_roles(user_roles, user_id)]_vars

(* Both users hold roles, one of them two, and an assignment of a name     *)
(* that is not a role has just been refused.                               *)
C19_Witness ==
    /\ pm_last.op = "assign_role"
    /\ pm_last.ret = "False"
    /\ AssignedTo("u1") = {"viewer", "auditor"}
    /\ AssignedTo("u2") = {"viewer"}

(* C20: require_permission raises the permission-denied error exactly when *)
(* check_permission on the same arguments would return false, and returns  *)
(* normally otherwise; either way it appends exactly one audit entry, and  *)
(* the error names the permission and, when one was given, the resource    *)
(* id.                                                                     *)
C20_RequirePermission ==
    [][\A user_id \in AuditUsers, permission \in AuditPermissions,
          resource_id \in AuditResources :
          require_permission(user_id, permission, resource_id) =>
              LET granted == CheckOutcome(roles, user_roles, user_id, permission, resource_id)
              IN  /\ pm_last'.exc.type = "PermissionError" <=> ~granted
                  /\ granted => pm_last'.exc = NoError /\ pm_last'.ret = "None"
                  /\ audit_log' = Append(audit_log,
                                         AuditEntry(user_id, permission, resource_id, granted))
                  /\ ~granted =>
                         /\ pm_last'.exc.permission = permission
                         /\ pm_last'.exc.resource_id = resource_id]_vars

(* A requirement on a resource was refused: the error names the permission *)
(* and the resource, and the refusal is in the log; an earlier requirement *)
(* had passed.                                                             *)
C20_Witness ==
    /\ pm_last.op = "require_permission"
    /\ pm_last.exc = PermissionError("u1", EXECUTE, <<"b", "a">>)
    /\ Len(audit_log) = 2
    /\ audit_log[1] = AuditEntry("u1", READ, <<>>, TRUE)
    /\ audit_log[2] = AuditEntry("u1", EXECUTE, <<"b", "a">>, FALSE)

(* C21: register_role never fails; registering under a name that is        *)
(* already registered replaces the definition (and only that one), and a   *)
(* later check_permission, also for a user who was assigned the name       *)
(* before, is decided by the definition registered last.                   *)
C21_LastDefinitionWins ==
    [][/\ \A role \in Redefinitions :
             /\ ENABLED register_role(role)
             /\ register_role(role) =>
                    /\ pm_last' = Returned("register_role", "None")
                    /\ DOMAIN roles' = DOMAIN roles \cup {role.name}
                    /\ roles'[role.name] = role
                    /\ \A n \in DOMAIN roles \ {role.name} : roles'[n] = roles[n]
                    /\ user_roles' = user_roles
       /\ \A permission \in Permission, role_name \in RedefinedNames :
             /\ check_permission("u1", permission, <<>>)
             /\ AssignedTo("u1") = {role_name}
             => (pm_last'.ret = "True" <=> permission \in roles[role_name].permissions)]_vars

(* A user assigned viewer was granted Read, then viewer was registered     *)
(* again without permissions, and the same check was denied.               *)
C21_Witness ==
    /\ AssignedTo("u1") = {"viewer"}
    /\ roles["viewer"] = Role("viewer", {}, <<>>)
    /\ Len(audit_log) = 2
    /\ audit_log[1] = AuditEntry("u1", READ, <<>>, TRUE)
    /\ audit_log[2] = AuditEntry("u1", READ, <<>>, FALSE)

----------------------------------------------------------------------------
(* More claims on the Confidence Scorer *)

(* The outcomes retained for a subject. *)
Retained(twin_id) == IF twin_id \in DOMAIN history THEN history[twin_id] ELSE <<>>

(* C22: the historical_success_rate calculate returns for a subject is 0.5 *)
(* when fewer than 10 outcomes are retained for that subject, and          *)
(* otherwise the successes among its retained outcomes divided by their    *)
(* number; the outcomes of other subjects do not count.                    *)
C22_HistoricalRate ==
    [][\A twin_id \in TwinIds :
          calculate(twin_id, NoQuality, NoSimulation, <<>>) =>
              LET kept == Retained(twin_id)
                  good == Cardinality({i \in DOMAIN kept : kept[i].success})
                  rate == cs_last'.components.historical_success_rate
              IN  IF Len(kept) < 10
                  THEN rate.num * 2 = rate.den
                  ELSE rate.num * Len(kept) = good * rate.den]_vars

(* One subject has ten outcomes, three of them successes, the other has    *)
(* ten successes; the rate returned last is three tenths.                  *)
C22_Witness ==
    /\ Len(Retained("twA")) = 10
    /\ Cardinality({i \in DOMAIN Retained("twA") : Retained("twA")[i].success}) = 3
    /\ Len(Retained("twB")) = 10
    /\ \A i \in DOMAIN Retained("twB") : Retained("twB")[i].success
    /\ cs_last.components.historical_success_rate = Frac(3, 10)

Min(a, b) == IF a < b THEN a ELSE b

(* C23: after any sequence of record_outcome calls the history of each     *)
(* subject holds at most 1000 records, and they are the most recent        *)
(* min(n, 1000) of the n records recorded for it, in recording order: each *)
(* call leaves the end of the old history followed by the new record.      *)
C23_WindowOfLast1000 ==
    [][\A twin_id \in TwinIds :
          RecordNext(twin_id) =>
              LET n == Recorded(twin_id) + 1
                  all == Append(Retained(twin_id), NthOutcome(n))
                  kept == history'[twin_id]
              IN  /\ Len(kept) <= 1000
                  /\ Len(kept) = Min(n, 1000)
                  /\ kept = SubSeq(all, Len(all) - Len(kept) + 1, Len(all))
                  /\ \A i \in DOMAIN kept : kept[i] = NthOutcome(n - Len(kept) + i)
                  /\ \A other \in DOMAIN history \ {twin_id} :
                         history'[other] = history[other]]_vars

(* The 1001st outcome has been recorded: the first one is gone, the        *)
(* second is now the oldest, and the other subject keeps its two.          *)
C23_Witness ==
    /\ DOMAIN history = {"twA", "twB"}
    /\ Len(history["twA"]) = 1000
    /\ history["twA"][1] = NthOutcome(2)
    /\ history["twA"][1000] = NthOutcome(1001)
    /\ history["twB"] = <<NthOutcome(1), NthOutcome(2)>>

(* C24: calculate leaves the outcome history of every subject unchanged    *)
(* and creates no entry for an unknown subject, so the same call made      *)
(* again right after it returns the same result.                           *)
C24_CalculateKeepsHistory ==
    [][\A twin_id \in TwinIds :
          calculate(twin_id, NoQuality, NoSimulation, <<>>) =>
              /\ DOMAIN history' = DOMAIN history
              /\ \A t \in DOMAIN history : history'[t] = history[t]
              /\ cs_last' = CalculateOutcome(history', twin_id, NoQuality, NoSimulation, <<>>)]_vars

(* calculate has returned while no subject has a history: the subject it   *)
(* was called for is unknown still.                                        *)
C24_Witness ==
    /\ DOMAIN history = {}
    /\ cs_last # NoResult
    /\ cs_last.components.historical_success_rate = Frac(1, 2)

(* C25: the simulation_consistency component is max(0, 1 - m), m the       *)
(* largest value of the supplied uncertainty mapping, when a simulation    *)
(* result with uncertainty values is supplied; 0.8 when a simulation       *)
(* result is supplied without uncertainty information; 0.5 only when no    *)
(* simulation result is supplied at all.                                   *)
C25_SimConsistency ==
    [][\A simulation_result \in Simulations :
          calculate("twA", NoQuality, simulation_result, <<>>) =>
              LET got == cs_last'.components.simulation_consistency
                  values == IF "uncertainty" \in simulation_result.keys
                            THEN simulation_result.uncertainty ELSE {}
              IN  IF ~simulation_result.given THEN got.num * 2 = got.den
                  ELSE IF values = {} THEN got.num * 5 = 4 * got.den
                  ELSE got.num * UncertaintyUnit
                           = got.den * (IF UncertaintyUnit - Max(values) < 0 THEN 0
                                        ELSE UncertaintyUnit - Max(values))]_vars

(* C26: the ai_consensus_score component is the fraction of the agent      *)
(* recommendations equal to the most frequent one when at least 2 agents   *)
(* report a recommendation, and 0.5 when fewer than 2 agents report or no  *)
(* recommendation is present.                                              *)
C26_AiConsensus ==
    [][\A ai_agents \in AgentLists :
          calculate("twA", NoQuality, NoSimulation, ai_agents) =>
              LET got == cs_last'.components.ai_consensus_score
                  reporting == {i \in DOMAIN ai_agents : ai_agents[i] # ""}
                  most == Max({Cardinality({j \in reporting : ai_agents[j] = ai_agents[i]}) :
                                  i \in reporting})
              IN  IF Cardinality(reporting) >= 2
                  THEN got.num * Cardinality(reporting) = most * got.den
                  ELSE got.num * 2 = got.den]_vars

----------------------------------------------------------------------------
(* More claims on the Decision Maker *)

(* C27: a Decision of type REJECT or REQUIRE_ANALYSIS has recommended_action *)
(* null, also when an action was proposed; a Decision of type AUTO_EXECUTE   *)
(* or REQUIRE_APPROVAL carries exactly the proposed action, null when none   *)
(* was proposed.                                                             *)
C27_RecommendedAction ==
    [][\A confidence \in Totals, action \in ProposedActions :
          decide(confidence, action) =>
              /\ dm_last'.decision_type \in {REJECT, REQUIRE_ANALYSIS}
                     => dm_last'.recommended_action = NoAction
              /\ dm_last'.decision_type \in {AUTO_EXECUTE, REQUIRE_APPROVAL}
                     => dm_last'.recommended_action = action]_vars

(* A low confidence with a harmless action proposed: REQUIRE_ANALYSIS      *)
(* without the action.                                                     *)
C27_Witness ==
    /\ dm_last.decision_type = REQUIRE_ANALYSIS
    /\ dm_last.confidence = 69
    /\ dm_last.recommended_action = NoAction
    /\ decision_log = <<dm_last>>

(* The first registered constraint whose forbid-list holds the type. *)
FirstForbidding(action) ==
    CHOOSE i \in DOMAIN safety_constraints :
        /\ action.type \in safety_constraints[i].forbid
        /\ \A k \in 1..(i - 1) : action.type \notin safety_constraints[k].forbid

(* C36: an action whose type a registered constraint forbids is rejected,   *)
(* with emergency = true as without it; the registered constraints come     *)
(* before the built-in shutdown rule and the reasoning carries the reason   *)
(* of the first constraint that forbids the type (the message naming the    *)
(* type when that constraint has no reason), also for a shutdown without    *)
(* the flag; the flag exempts from the built-in rule only: a shutdown with  *)
(* emergency = true that no constraint forbids passes the safety check.     *)
C36_ConstraintsBeforeBuiltIn ==
    [][\A confidence \in Totals, action \in ProposedActions :
          decide(confidence, action) =>
              /\ TypeForbidden(action) =>
                     LET first == safety_constraints[FirstForbidding(action)]
                     IN  /\ dm_last'.decision_type = REJECT
                         /\ ~dm_last'.safety_check_passed
                         /\ dm_last'.reasoning.reason =
                                IF first.reason = Absent
                                THEN <<"Action type", action.type, "is forbidden">>
                                ELSE <<first.reason>>
              /\ (action.given /\ action.type = "shutdown"
                     /\ action.emergency = "true" /\ ~TypeForbidden(action)) =>
                     dm_last'.safety_check_passed]_vars

(* C36 witness: two constraints that both forbid "restart" are registered,  *)
(* and the restart proposed with emergency = true (the only restart there   *)
(* is) was rejected at the auto-execution threshold with the reason of the  *)
(* first.                                                                   *)
C36_Witness ==
    /\ safety_constraints = <<[forbid |-> {"restart"}, reason |-> "policy"],
                              [forbid |-> {"restart", "shutdown"}, reason |-> Absent]>>
    /\ decision_log # <<>>
    /\ dm_last.decision_type = REJECT
    /\ ~dm_last.safety_check_passed
    /\ dm_last.confidence = 90
    /\ dm_last.reasoning.reason = <<"policy">>

(* C28: every decide call, whatever its outcome, appends exactly the       *)
(* Decision it returns to the end of the decision log and changes nothing  *)
(* else: the earlier entries and the safety constraints are as before, so  *)
(* the log lists the decisions in invocation order.                        *)
C28_DecideAppendsOne ==
    [][\A confidence \in LoggedTotals, action \in LoggedActions :
          decide(confidence, action) =>
              /\ Len(decision_log') = Len(decision_log) + 1
              /\ SubSeq(decision_log', 1, Len(decision_log)) = decision_log
              /\ decision_log'[Len(decision_log')] = dm_last'
              /\ dm_last'.confidence = confidence
              /\ safety_constraints' = safety_constraints
              /\ get_decision_log(100)' = Append(get_decision_log(100), dm_last')]_vars

(* A rejection followed by an automatic execution, in that order. *)
C28_Witness ==
    /\ Len(decision_log) = 2
    /\ decision_log[1].decision_type = REJECT
    /\ decision_log[2].decision_type = AUTO_EXECUTE
    /\ decision_log[2] = dm_last
    /\ safety_constraints # <<>>

----------------------------------------------------------------------------
(* More claims on the workflow *)

(* C29: create_proposal always succeeds and adds exactly one new proposal  *)
(* with status PENDING, no resolver and no resolution reason, an id that   *)
(* no existing proposal has, and expires_at equal to the time of the       *)
(* creation (the clock as create_proposal reads it) plus timeout_hours, 24 *)
(* by default; every existing proposal is left unchanged.                  *)
C29_CreateProposal ==
    [][\A twin \in TwinIds, h \in CreateHours, d \in 0..1 :
          /\ ENABLED create_proposal(twin, h, d)
          /\ create_proposal(twin, h, d) =>
                LET id == wf_last'.id IN
                /\ ~wf_last'.exc
                /\ wf_last'.ret = <<id>>
                /\ id \notin DOMAIN proposals
                /\ DOMAIN proposals' = DOMAIN proposals \cup {id}
                /\ \A i \in DOMAIN proposals : proposals'[i] = proposals[i]
                /\ proposals'[id].twin_id = twin
                /\ proposals'[id].status = PENDING
                /\ proposals'[id].approved_by = NoneVal
                /\ proposals'[id].approval_reason = NoneVal
                /\ IsoTick(proposals'[id].expires_at) = now + HoursDelta(h)
                /\ IsoTick(proposals'[id].created_at) \in now..now'
                /\ DEFAULT_TIMEOUT_HOURS = 24]_vars

(* A second proposal, with the default timeout, has just been created      *)
(* beside an approved one; its created_at was read a tick after the clock  *)
(* reading its expiry is counted from.                                     *)
C29_Witness ==
    /\ wf_last.op = "create_proposal"
    /\ wf_last.id = 2
    /\ proposals[1].status = APPROVED
    /\ proposals[2].status = PENDING
    /\ IsoTick(proposals[2].created_at) = now
    /\ IsoTick(proposals[2].expires_at) = now - 1 + HoursDelta(DEFAULT_TIMEOUT_HOURS)

(* C30: list_pending(subject?) returns exactly the proposals that have     *)
(* status PENDING, are not past their expiry and, when a subject is given, *)
(* belong to that subject, ordered newest-created first; a proposal that   *)
(* is APPROVED, REJECTED or EXPIRED is in no result.  (wf_last holds the    *)
(* call just returned: the clock has not advanced since.)                  *)
C30_ListPendingResult ==
    wf_last.op = "list_pending" =>
        LET returned == wf_last.ret
            twin == wf_last.who
            expected == {i \in DOMAIN proposals :
                            /\ proposals[i].status = PENDING
                            /\ ~(IsoTick(proposals[i].expires_at) < now)
                            /\ Truthy(twin) => proposals[i].twin_id = twin}
        IN  /\ Range(returned) = expected
            /\ Len(returned) = Cardinality(expected)
            /\ \A k \in 1..(Len(returned) - 1) :
                   IsoTick(proposals[returned[k]].created_at)
                       >= IsoTick(proposals[returned[k + 1]].created_at)
            /\ \A i \in Range(returned) :
                   proposals[i].status \notin {APPROVED, REJECTED, EXPIRED}

(* C34 as claimed: approve and reject never resolve a proposal after its    *)
(* validity window: a call made when the current time is past the           *)
(* proposal's expires_at returns None and the proposal is neither APPROVED  *)
(* nor REJECTED afterwards, whether list_pending has run since or not.      *)
C34_NoResolveAfterExpiry ==
    [][(/\ now' = now
        /\ wf_last'.op \in {"approve", "reject"}
        /\ wf_last'.id \in DOMAIN proposals
        /\ IsoTick(proposals[wf_last'.id].expires_at) < now) =>
           /\ wf_last'.ret = <<>>
           /\ proposals[wf_last'.id].status = PENDING =>
                  proposals'[wf_last'.id].status \notin {APPROVED, REJECTED}]_vars

----------------------------------------------------------------------------
(* Claims on threads in the Confidence Scorer and the Permission Authority *)

(* C31: when several threads call record_outcome in parallel for one       *)
(* subject, fewer than 1000 records in total, every record is in the       *)
(* subject's history once all calls have returned.                         *)
C31_NoRecordLost ==
    (\A t \in Threads : pc[t] = "idle") =>
        \A t \in Threads : \A n \in 1..RecordCalls(t) :
            Cardinality({i \in DOMAIN HistoryOf(history, "twA") :
                            HistoryOf(history, "twA")[i].action_id = RecordId(t, n)}) = 1

(* C32: when two threads call assign_role in parallel for the same,        *)
(* previously unknown user with registered roles r1 and r2, both calls     *)
(* return true and, once both have returned, the user's assignment set     *)
(* contains r1 and r2.  (Every thread makes one call, so the user of two   *)
(* calls that name the same user was unknown before them.)                 *)
C32_BothAssigned ==
    \A t1 \in Threads : \A t2 \in Threads \ {t1} :
        (/\ pc[t1] = "idle" /\ pc[t2] = "idle"
         /\ ret[t1].op = "assign_role" /\ ret[t2].op = "assign_role"
         /\ ret[t1].id[1] = ret[t2].id[1]
         /\ ret[t1].id[2] \in DOMAIN roles /\ ret[t2].id[2] \in DOMAIN roles)
        => /\ ret[t1].ret = <<"True">>
           /\ ret[t2].ret = <<"True">>
           /\ {ret[t1].id[2], ret[t2].id[2]} \subseteq AssignedTo(ret[t1].id[1])

----------------------------------------------------------------------------
(* Claims on the diff stream *)

(* A well-formed cursor: "cursor_" followed by decimal digits only. *)
WellFormed(cursor) ==
    /\ Len(cursor) > Len(CursorPrefix)
    /\ SubSeq(cursor, 1, Len(CursorPrefix)) = CursorPrefix
    /\ \A i \in (Len(CursorPrefix) + 1)..Len(cursor) : IsDigit(cursor[i])

(* C33: for every offset n >= 0, parse_cursor(format_cursor(n)) = n; a     *)
(* subscriber with no stored cursor has the initial cursor                 *)
(* "cursor_000000"; a malformed cursor string parses to offset 0.          *)
C33_CursorRoundTrip ==
    /\ ds_last.op = "format_cursor" => parse_cursor(ds_last.ret) = ds_last.arg
    /\ (ds_last.op = "get_cursor" /\ ds_last.arg \notin DOMAIN cursors)
           => ds_last.ret = <<"c", "u", "r", "s", "o", "r", "_", "0", "0", "0", "0", "0", "0">>
    /\ (ds_last.op = "parse_cursor" /\ ~WellFormed(ds_last.arg)) => ds_last.ret = 0

(* C38: starting from the initial cursor and calling get_events again and  *)
(* again with the next_cursor returned before, append_event calls in       *)
(* between, the consumer is returned every appended event exactly once and *)
(* in append order: what it has seen is always the beginning of the log,   *)
(* and every appended event is seen in the end.  Each next_cursor is the   *)
(* since offset plus the number of events returned and never exceeds the   *)
(* number of events appended so far.                                       *)
C38_StreamDelivery ==
    /\ [](/\ Len(client_seen) <= Len(event_log)
          /\ \A i \in DOMAIN client_seen : client_seen[i] = serialize_event(event_log[i])
          /\ parse_cursor(client_cursor) = Len(client_seen)
          /\ parse_cursor(client_cursor) <= current_offset
          /\ current_offset = Len(event_log))
    /\ [][\A limit \in Limits :
            client_poll(limit) =>
                /\ ds_last'.ret.since = client_cursor
                /\ client_cursor' = ds_last'.ret.next_cursor
                /\ parse_cursor(ds_last'.ret.next_cursor)
                       = parse_cursor(ds_last'.ret.since) + Len(ds_last'.ret.events)
                /\ parse_cursor(ds_last'.ret.next_cursor) <= current_offset]_vars
    /\ \A k \in 1..MaxEvents : (Len(event_log) >= k) ~> (Len(client_seen) >= k)

(* Three events were appended and the consumer has seen them all; the last *)
(* poll started from cursor_000002 and returned the third event alone.     *)
C38_Witness ==
    /\ Len(event_log) = 3
    /\ Len(client_seen) = 3
    /\ ds_last.op = "get_events"
    /\ ds_last.ret.since = format_cursor(2)
    /\ Len(ds_last.ret.events) = 1
    /\ client_cursor = format_cursor(3)

====
